---- MODULE Spec2Model ----
\* NAV estimation engine of backend/app/core/nav_estimator.py together with
\* the TTL cache (cache_manager.py) and the data gateway (data_fetcher.py).
\*
\* Conventions:
\*   - Python None is the empty tuple; every value that may be None is a
\*     tuple, a sequence or a record.
\*   - Python floats are exact rationals <<num, den>> in lowest terms with
\*     den > 0 (rounding of binary floating point is not modelled).
\*   - Python strings are sequences of one-character strings.  The two
\*     characters of the feeder-fund marker are written "L" and "J".
\*   - One action is one awaited step of a coroutine: the event loop may run
\*     another step between two of them.
EXTENDS Integers, Sequences, FiniteSets, TLC

----------------------------------------------------------------------------
\* Bounds of the model

MaxTime == 90
MaxCalls == 2
MaxHoldings == 2

\* settings.cache_realtime_nav_ttl, in seconds
cache_realtime_nav_ttl == 60

\* date.today(); the stored dates are 0 (the previous day) and Today
Today == 1

----------------------------------------------------------------------------
\* Python values

None == <<>>

RECURSIVE GCD(_, _)
GCD(a, b) == IF b = 0 THEN a ELSE GCD(b, a % b)

Abs(n) == IF n < 0 THEN -n ELSE n

\* the rational n/d in lowest terms, d # 0
R(n, d) ==
    LET s == IF d < 0 THEN -1 ELSE 1
        g == GCD(Abs(n), Abs(d))
    IN  <<(s * n) \div g, (s * d) \div g>>

RAdd(a, b) == R(a[1] * b[2] + b[1] * a[2], a[2] * b[2])
RMul(a, b) == R(a[1] * b[1], a[2] * b[2])
RDiv(a, b) == R(a[1] * b[2], a[2] * b[1])
RLt(a, b) == a[1] * b[2] < b[1] * a[2]
RLe(a, b) == a[1] * b[2] <= b[1] * a[2]
RZero == R(0, 1)
ROne == R(1, 1)
RInt(n) == R(n, 1)

\* truth value of an optional float: None and 0.0 are false
TruthyNum(v) == v # None /\ v # RZero

\* truth value of an optional dict, list or object: None, {} and [] are false
TruthyObj(v) == v # None

\* the outcome of a call: a returned value or a raised exception
Ret(v) == [exc |-> FALSE, value |-> v]

Raise == [exc |-> TRUE, value |-> None]

\* try: body / except Exception: return fallback
Try(outcome, fallback) == IF outcome.exc THEN Ret(fallback) ELSE outcome

\* str.join
RECURSIVE Join(_, _)
Join(parts, sep) ==
    IF Len(parts) = 0 THEN <<>>
    ELSE IF Len(parts) = 1 THEN parts[1]
    ELSE parts[1] \o sep \o Join(Tail(parts), sep)

\* the Python test  pattern in text  on strings
Contains(text, pattern) ==
    \E i \in 0..(Len(text) - Len(pattern)) :
        \A j \in 1..Len(pattern) : text[i + j] = pattern[j]

----------------------------------------------------------------------------
\* The funds of the model

FundCodes == {<<"1">>, <<"1", "0">>}

Marker == <<"L", "J">>

PlainName == <<"H", "S">>

LinkedName == <<"H", "S", "L", "J", "A">>

\* the name the data vendor publishes for a fund
VendorName(code) == IF Len(code) = 1 THEN PlainName ELSE LinkedName

Callers == {1, 2}

SeqCallers == {1}


----------------------------------------------------------------------------
\* What the external providers hold (the world the gateway reads)

StockCodes == <<"A", "B", "C">>

\* the positions the fund discloses: rows of ef.fund.get_invest_position
FundPositions(code) ==
    << [stock_code |-> "A", percentage |-> 60],
       [stock_code |-> "B", percentage |-> 40] >>

\* the latest quote change of a stock, in percent
MarketChange(stock_code) == IF stock_code = "A" THEN RInt(2) ELSE RInt(-1)

\* the share of stocks ef.fund.get_types_percentage reports, in percent
VendorStockShare == RInt(90)

\* the JSON object of the vendor's real-time endpoint
VendorPayload(code) ==
    [fundcode |-> code, name |-> VendorName(code),
     dwjz |-> RInt(10), gsz |-> R(101, 10), gszzl |-> RInt(1)]

\* the NAV histories a fund can have in storage: date -> nav
NavHistories ==
    { <<>>,
      [d \in {0} |-> RInt(10)],
      [d \in {0} |-> RZero],
      [d \in {0, Today} |-> IF d = Today THEN R(102, 10) ELSE RInt(10)] }

NoFund == [exists |-> FALSE, name |-> None, navs |-> <<>>]

FundRows ==
    {NoFund} \cup
    { [exists |-> TRUE, name |-> n, navs |-> h] :
        n \in {PlainName, LinkedName}, h \in NavHistories }

BaseRow == [exists |-> TRUE, name |-> PlainName, navs |-> [d \in {0} |-> RInt(10)]]

\* the storage states the model starts from: the row of fund "1" varies,
\* fund "10" has a plain name and a NAV of the previous day
Storages ==
    { [f \in FundCodes |-> IF f = <<"1">> THEN row ELSE BaseRow] :
        row \in FundRows }

----------------------------------------------------------------------------
\* cache_manager.py

get_cache_key(prefix, args) == Join(<<prefix>> \o args, <<":">>)

\* the key built without the fund code
RealtimeKey_shared(fund_code) ==
    get_cache_key(<<"f", "u", "n", "d">>,
                  << <<"n", "a", "v">>, <<"r", "e", "a", "l", "t", "i", "m", "e">> >>)

RealtimeKey(fund_code) ==
    get_cache_key(<<"f", "u", "n", "d">>,
                  << fund_code, <<"n", "a", "v">>, <<"r", "e", "a", "l", "t", "i", "m", "e">> >>)

Without(store, key) == [k \in (DOMAIN store) \ {key} |-> store[k]]

\* CacheManager.get with the expiry comparison reversed
CacheManager_get_reversed(store, key, t) ==
    IF key \notin DOMAIN store
    THEN [value |-> None, store |-> store]
    ELSE IF t < store[key].expires_at
         THEN [value |-> None, store |-> Without(store, key)]
         ELSE [value |-> store[key].value, store |-> store]

\* CacheManager.get that treats an entry as expired at its expiry time already
CacheManager_get_strict(store, key, t) ==
    IF key \notin DOMAIN store
    THEN [value |-> None, store |-> store]
    ELSE IF t >= store[key].expires_at
         THEN [value |-> None, store |-> Without(store, key)]
         ELSE [value |-> store[key].value, store |-> store]

\* CacheManager.get that leaves an expired entry in the store
CacheManager_get_keep(store, key, t) ==
    IF key \notin DOMAIN store
    THEN [value |-> None, store |-> store]
    ELSE IF t > store[key].expires_at
         THEN [value |-> None, store |-> store]
         ELSE [value |-> store[key].value, store |-> store]

\* CacheManager.get: the value returned and the store it leaves
CacheManager_get(store, key, t) ==
    IF key \notin DOMAIN store
    THEN [value |-> None, store |-> store]
    ELSE IF t > store[key].expires_at
         THEN [value |-> None, store |-> Without(store, key)]
         ELSE [value |-> store[key].value, store |-> store]

\* CacheManager.set that keeps the value of an entry already there and only
\* renews its expiry
CacheManager_set_keep_value(store, key, value, ttl, t) ==
    [k \in (DOMAIN store) \cup {key} |->
        IF k = key
        THEN [value |-> IF key \in DOMAIN store THEN store[key].value ELSE value,
              expires_at |-> t + ttl]
        ELSE store[k]]

\* CacheManager.set
CacheManager_set(store, key, value, ttl, t) ==
    [k \in (DOMAIN store) \cup {key} |->
        IF k = key THEN [value |-> value, expires_at |-> t + ttl] ELSE store[k]]

\* CacheManager.delete
CacheManager_delete(store, key) ==
    IF key \in DOMAIN store THEN Without(store, key) ELSE store

\* CacheManager.clear
CacheManager_clear(store) == <<>>

\* delete_pattern that matches the pattern at the start of the key only
CacheManager_delete_pattern_prefix(store, pattern) ==
    LET keys_to_delete ==
            {key \in DOMAIN store :
                /\ Len(pattern) <= Len(key)
                /\ SubSeq(key, 1, Len(pattern)) = pattern}
    IN  [k \in (DOMAIN store) \ keys_to_delete |-> store[k]]

\* CacheManager.delete_pattern
CacheManager_delete_pattern(store, pattern) ==
    LET keys_to_delete == {key \in DOMAIN store : Contains(key, pattern)}
    IN  [k \in (DOMAIN store) \ keys_to_delete |-> store[k]]

----------------------------------------------------------------------------
\* data_fetcher.py.  The parameter ef (or http) is what the third-party call
\* does: "raise", "empty" (no rows, no match) or "ok".

LibraryOutcomes == {"raise", "empty", "ok"}

\* dict.get(key, default) on a JSON object whose missing fields are None
Get(data, field, default) == IF data[field] = None THEN default ELSE data[field]

\* the vendor's JSON object without its numeric fields
BarePayload(code) ==
    [fundcode |-> code, name |-> VendorName(code),
     dwjz |-> None, gsz |-> None, gszzl |-> None]

HttpOutcomes == {"raise", "empty", "ok", "bare"}

\* get_realtime_nav that reads a response without the JSONP wrapper as an
\* empty JSON object
get_realtime_nav_lenient(fund_code, http) ==
    Try(IF http = "raise" THEN Raise
        ELSE LET data == IF http = "ok" THEN VendorPayload(fund_code)
                         ELSE BarePayload(fund_code)
             IN  Ret([fund_code |-> data.fundcode,
                      fund_name |-> data.name,
                      current_nav |-> Get(data, "dwjz", RZero),
                      estimated_nav |-> Get(data, "gsz", RZero),
                      estimated_growth |-> Get(data, "gszzl", RZero)]),
        None)

\* DataFetcher.get_realtime_nav
get_realtime_nav(fund_code, http) ==
    Try(IF http = "raise" THEN Raise
        ELSE IF http = "empty" THEN Ret(None)
        ELSE LET data == IF http = "ok" THEN VendorPayload(fund_code)
                         ELSE BarePayload(fund_code)
             IN  Ret([fund_code |-> data.fundcode,
                      fund_name |-> data.name,
                      current_nav |-> Get(data, "dwjz", RZero),
                      estimated_nav |-> Get(data, "gsz", RZero),
                      estimated_growth |-> Get(data, "gszzl", RZero)]),
        None)

\* DataFetcher._get_fund_info_from_tiantian
_get_fund_info_from_tiantian(fund_code, http) ==
    Try(IF http = "raise" THEN Raise
        ELSE IF http = "empty" THEN Ret(None)
        ELSE Ret([code |-> fund_code, name |-> VendorName(fund_code)]),
        None)

\* DataFetcher.get_fund_info: the except branch asks the vendor endpoint
get_fund_info(fund_code, ef, http) ==
    IF ef = "raise" THEN _get_fund_info_from_tiantian(fund_code, http)
    ELSE IF ef = "empty" THEN Ret(None)
    ELSE Ret([code |-> fund_code, name |-> VendorName(fund_code)])

\* DataFetcher.get_fund_holdings
get_fund_holdings(fund_code, ef, rows) ==
    Try(IF ef = "raise" THEN Raise
        ELSE IF ef = "empty" THEN Ret(<<>>)
        ELSE Ret(rows),
        <<>>)

\* DataFetcher.get_fund_asset_allocation; share is the stock share in percent
get_fund_asset_allocation(fund_code, ef, share) ==
    Try(IF ef = "raise" THEN Raise
        ELSE IF ef = "empty" THEN Ret(<<>>)
        ELSE Ret([stock_ratio |-> RDiv(share, RInt(100))]),
        <<>>)

\* get_stock_prices without its try block
get_stock_prices_unguarded(stock_codes, ef, df) ==
    IF Len(stock_codes) = 0 THEN Ret(<<>>)
    ELSE IF ef = "raise" THEN Raise
    ELSE IF ef = "empty" \/ DOMAIN df = {} THEN Ret(<<>>)
    ELSE Ret([code \in DOMAIN df |-> [change_percent |-> df[code]]])

\* DataFetcher.get_stock_prices; df maps the codes of the returned rows to
\* their change in percent
get_stock_prices(stock_codes, ef, df) ==
    Try(IF Len(stock_codes) = 0 THEN Ret(<<>>)
        ELSE IF ef = "raise" THEN Raise
        ELSE IF ef = "empty" \/ DOMAIN df = {} THEN Ret(<<>>)
        ELSE Ret([code \in DOMAIN df |-> [change_percent |-> df[code]]]),
        <<>>)


----------------------------------------------------------------------------
\* nav_estimator.py: the helpers of NavEstimator

\* the local wall clock when the model starts: a Friday, 14:59:00
LocalClock == [weekday |-> 4, seconds |-> 14 * 3600 + 59 * 60]

\* NavEstimator.is_trading_hours at t seconds after the start
is_trading_hours(t) ==
    LET trading_start == 9 * 3600 + 30 * 60
        trading_end == 15 * 3600
        current_time == LocalClock.seconds + t
    IN  IF LocalClock.weekday >= 5 THEN FALSE
        ELSE trading_start <= current_time /\ current_time <= trading_end

\* is_etf_linked_fund that compares the whole name with the marker
is_etf_linked_fund_exact(fund_name) == fund_name = Marker

\* NavEstimator.is_etf_linked_fund
is_etf_linked_fund(fund_name) == Contains(fund_name, Marker)

\* order_by(date.desc()).limit(1) on a non-empty history
LatestDate(navs) == CHOOSE d \in DOMAIN navs : \A e \in DOMAIN navs : e <= d

\* NavEstimator.is_today_nav_published; row is the fund's row in storage and
\* dbok says whether the queries succeed
is_today_nav_published(db_session, row, dbok) ==
    IF ~db_session THEN Ret(FALSE)
    ELSE Try(IF ~dbok THEN Raise
             ELSE IF ~row.exists THEN Ret(FALSE)
             ELSE IF DOMAIN row.navs = {} THEN Ret(FALSE)
             ELSE Ret(LatestDate(row.navs) = Today),
             FALSE)

\* whether _get_actual_nav reaches its vendor call (step 2 of the function)
ActualNavAsksVendor(db_session, row, dbok) ==
    db_session /\ dbok /\ ~(row.exists /\ Today \in DOMAIN row.navs)

\* NavEstimator._get_actual_nav; realtime is the outcome of its own call of
\* data_fetcher.get_realtime_nav
_get_actual_nav(db_session, row, dbok, realtime) ==
    IF ~db_session THEN Ret(None)
    ELSE Try(IF ~dbok THEN Raise
             ELSE IF row.exists /\ Today \in DOMAIN row.navs
                  THEN Ret(row.navs[Today])
             ELSE IF realtime.exc THEN Raise
             ELSE IF TruthyObj(realtime.value)
                     /\ TruthyNum(realtime.value.current_nav)
                  THEN Ret(realtime.value.current_nav)
             ELSE Ret(None),
             None)

\* _get_previous_nav without its try block
_get_previous_nav_unguarded(db_session, row, dbok) ==
    IF ~db_session THEN Ret(None)
    ELSE IF ~dbok THEN Raise
    ELSE IF ~row.exists THEN Ret(None)
    ELSE IF DOMAIN row.navs = {} THEN Ret(None)
    ELSE Ret(row.navs[LatestDate(row.navs)])

\* NavEstimator._get_previous_nav
_get_previous_nav(db_session, row, dbok) ==
    IF ~db_session THEN Ret(None)
    ELSE Try(IF ~dbok THEN Raise
             ELSE IF ~row.exists THEN Ret(None)
             ELSE IF DOMAIN row.navs = {} THEN Ret(None)
             ELSE Ret(row.navs[LatestDate(row.navs)]),
             None)

\* NavEstimator._get_fund_name; fund_info is the outcome of
\* data_fetcher.get_fund_info, awaited outside any try block
_get_fund_name(fund_code, db_session, row, dbok, fund_info) ==
    IF ~db_session
    THEN IF fund_info.exc THEN Raise
         ELSE Ret(IF TruthyObj(fund_info.value) THEN fund_info.value.name
                  ELSE fund_code)
    ELSE Try(IF ~dbok THEN Raise
             ELSE Ret(IF row.exists THEN row.name ELSE fund_code),
             fund_code)

\* the loop over the holdings (lines 138-147), from position i on
RECURSIVE WeightedLoop(_, _, _, _, _)
WeightedLoop(holdings, stock_prices, i, weighted_change, total_weight) ==
    IF i > Len(holdings)
    THEN [weighted_change |-> weighted_change, total_weight |-> total_weight]
    ELSE LET stock_code == holdings[i].stock_code
             holding_pct == RDiv(RInt(holdings[i].percentage), RInt(100))
         IN  IF stock_code \in DOMAIN stock_prices
             THEN LET price_change_pct ==
                          RDiv(stock_prices[stock_code].change_percent, RInt(100))
                  IN  WeightedLoop(holdings, stock_prices, i + 1,
                                   RAdd(weighted_change,
                                        RMul(holding_pct, price_change_pct)),
                                   RAdd(total_weight, holding_pct))
             ELSE WeightedLoop(holdings, stock_prices, i + 1,
                               weighted_change, total_weight)

\* the normalisation without its upper bound on the weight
Normalize_unbounded(weighted_change, total_weight) ==
    IF RLt(RZero, total_weight)
    THEN RDiv(weighted_change, total_weight)
    ELSE weighted_change

\* "Normalize if total weight is not 100%"
Normalize(weighted_change, total_weight) ==
    IF RLt(RZero, total_weight) /\ RLt(total_weight, ROne)
    THEN RDiv(weighted_change, total_weight)
    ELSE weighted_change

\* the allocation lookup with a default of 1.0
StockRatioOf_full(allocation) ==
    IF allocation = None THEN ROne ELSE allocation.stock_ratio

\* allocation.get("stock_ratio", 0.95)
StockRatioOf(allocation) ==
    IF allocation = None THEN R(95, 100) ELSE allocation.stock_ratio

\* the result of the holdings path with the stock ratio left out of the
\* estimate
HoldingsResult_no_ratio(fund_code, fund_name, previous_nav, weighted_change, stock_ratio, holdings, t) ==
    [fund_code |-> fund_code,
     fund_name |-> fund_name,
     current_nav |-> previous_nav,
     estimated_nav |-> RMul(previous_nav, RAdd(ROne, weighted_change)),
     change_percent |-> RMul(weighted_change, RInt(100)),
     last_update |-> t,
     is_trading_hours |-> is_trading_hours(t),
     calculation_method |-> "holdings_based",
     stock_ratio |-> stock_ratio,
     holdings_count |-> RInt(Len(holdings))]

\* the result of the holdings path
HoldingsResult(fund_code, fund_name, previous_nav, weighted_change, stock_ratio, holdings, t) ==
    [fund_code |-> fund_code,
     fund_name |-> fund_name,
     current_nav |-> previous_nav,
     estimated_nav |->
         RMul(previous_nav, RAdd(ROne, RMul(weighted_change, stock_ratio))),
     change_percent |-> RMul(RMul(weighted_change, stock_ratio), RInt(100)),
     last_update |-> t,
     is_trading_hours |-> is_trading_hours(t),
     calculation_method |-> "holdings_based",
     stock_ratio |-> stock_ratio,
     holdings_count |-> RInt(Len(holdings))]

\* x or y on optional floats
PyOr(x, y) == IF TruthyNum(x) THEN x ELSE y

\* the vendor result with a holdings count of 0 instead of None
TiantianResult_zero_count(fund_code, realtime_data, actual_nav, is_trading, today_published, t) ==
    LET should_show_estimate == ~today_published
    IN  [fund_code |-> fund_code,
         fund_name |-> realtime_data.fund_name,
         current_nav |-> actual_nav,
         estimated_nav |-> IF should_show_estimate
                           THEN realtime_data.estimated_nav ELSE actual_nav,
         change_percent |-> IF should_show_estimate
                            THEN realtime_data.estimated_growth ELSE RZero,
         last_update |-> t,
         is_trading_hours |-> is_trading,
         calculation_method |-> "tiantian_api",
         stock_ratio |-> None,
         holdings_count |-> RZero]

\* the vendor result with the estimate shown only inside trading hours
TiantianResult_gated(fund_code, realtime_data, actual_nav, is_trading, today_published, t) ==
    LET should_show_estimate == is_trading /\ ~today_published
    IN  [fund_code |-> fund_code,
         fund_name |-> realtime_data.fund_name,
         current_nav |-> actual_nav,
         estimated_nav |-> IF should_show_estimate
                           THEN realtime_data.estimated_nav ELSE actual_nav,
         change_percent |-> IF should_show_estimate
                            THEN realtime_data.estimated_growth ELSE RZero,
         last_update |-> t,
         is_trading_hours |-> is_trading,
         calculation_method |-> "tiantian_api",
         stock_ratio |-> None,
         holdings_count |-> None]

\* the result of NavEstimator._get_tiantian_estimate
TiantianResult(fund_code, realtime_data, actual_nav, is_trading, today_published, t) ==
    LET should_show_estimate == ~today_published
    IN  [fund_code |-> fund_code,
         fund_name |-> realtime_data.fund_name,
         current_nav |-> actual_nav,
         estimated_nav |-> IF should_show_estimate
                           THEN realtime_data.estimated_nav ELSE actual_nav,
         change_percent |-> IF should_show_estimate
                            THEN realtime_data.estimated_growth ELSE RZero,
         last_update |-> t,
         is_trading_hours |-> is_trading,
         calculation_method |-> "tiantian_api",
         stock_ratio |-> None,
         holdings_count |-> None]


----------------------------------------------------------------------------
\* State

VARIABLES
    now,      \* seconds since the start (datetime.utcnow, datetime.now)
    db,       \* storage: fund code -> row of funds with its nav_history
    cache,    \* CacheManager._cache: key -> [value, expires_at]
    pc,       \* per caller: the awaited step get_estimated_nav is at
    frame,    \* per caller: the arguments and local variables of the call
    ret,      \* per caller: the value the call returned
    log,      \* per caller: the external steps of the call and their answers
    ncalls    \* number of calls started

vars == <<now, db, cache, pc, frame, ret, log, ncalls>>

\* the locals of a call; names is the history of the values of fund_name
IdleFrame ==
    [fund_code |-> None, db_session |-> FALSE, fund_name |-> None,
     names |-> <<>>,
     previous_nav |-> None, holdings |-> None, stock_ratio |-> None,
     weighted_change |-> None, total_weight |-> None,
     stock_prices |-> None,
     realtime_data |-> None, actual_nav |-> None, is_trading |-> FALSE]

Init ==
    /\ now = 0
    /\ db \in Storages
    /\ cache = <<>>
    /\ pc = [c \in Callers |-> "idle"]
    /\ frame = [c \in Callers |-> IdleFrame]
    /\ ret = [c \in Callers |-> None]
    /\ log = [c \in Callers |-> <<>>]
    /\ ncalls = 0

\* an entry of the log
E(step, answer) == [step |-> step, answer |-> answer]

\* the call moves to step p with its locals changed to f, having made steps s
Goto(c, p, f, s) ==
    /\ pc' = [pc EXCEPT ![c] = p]
    /\ frame' = [frame EXCEPT ![c] = f]
    /\ log' = [log EXCEPT ![c] = @ \o s]
    /\ ret' = ret

\* the call returns v, having made steps s
Finish(c, v, s) ==
    /\ pc' = [pc EXCEPT ![c] = "done"]
    /\ ret' = [ret EXCEPT ![c] = v]
    /\ log' = [log EXCEPT ![c] = @ \o s]
    /\ frame' = frame

\* an exception leaves get_estimated_nav
Propagate(c, s) ==
    /\ pc' = [pc EXCEPT ![c] = "raised"]
    /\ log' = [log EXCEPT ![c] = @ \o s]
    /\ UNCHANGED <<frame, ret>>

\* what a storage query can do; without a session none is made
DbAnswers(db_session) == IF db_session THEN {"ok", "raise"} ELSE {"none"}

\* what the name lookup at the providers can do: efinance answers, has no
\* row, or raises and the vendor endpoint is asked instead
FundInfoAnswers == {"ok", "empty", "raise_ok", "raise_raise"}

EfOf(answer) == IF answer \in {"ok", "empty"} THEN answer ELSE "raise"

HttpOf(answer) == IF answer = "raise_ok" THEN "ok" ELSE "raise"

NameAnswers(db_session) ==
    IF db_session THEN DbAnswers(db_session) ELSE FundInfoAnswers

\* self._get_fund_name(fund_code, db_session) under the answer
ResolveName(f, row, answer) ==
    _get_fund_name(f.fund_code, f.db_session, row, answer = "ok",
                   get_fund_info(f.fund_code, EfOf(answer), HttpOf(answer)))

----------------------------------------------------------------------------
\* get_estimated_nav, one action per awaited step

\* lines 100-106: the call and its cache check
Call(c) ==
    /\ pc[c] = "idle"
    /\ ncalls < MaxCalls
    /\ \E fund_code \in FundCodes, db_session \in BOOLEAN :
         LET cache_key == RealtimeKey(fund_code)
             cached == CacheManager_get(cache, cache_key, now)
             f == [IdleFrame EXCEPT !.fund_code = fund_code,
                                    !.db_session = db_session]
         IN  /\ cache' = cached.store
             /\ frame' = [frame EXCEPT ![c] = f]
             /\ IF TruthyObj(cached.value)
                THEN /\ pc' = [pc EXCEPT ![c] = "done"]
                     /\ ret' = [ret EXCEPT ![c] = cached.value]
                     /\ log' = [log EXCEPT ![c] = <<E("cache_get", "hit")>>]
                ELSE /\ pc' = [pc EXCEPT ![c] = "fund_name"]
                     /\ ret' = [ret EXCEPT ![c] = None]
                     /\ log' = [log EXCEPT ![c] = <<E("cache_get", "miss")>>]
    /\ ncalls' = ncalls + 1
    /\ UNCHANGED <<now, db>>

\* lines 108-114: name lookup and classification
FundName(c) ==
    /\ pc[c] = "fund_name"
    /\ \E answer \in NameAnswers(frame[c].db_session) :
         LET f == frame[c]
             o == ResolveName(f, db[f.fund_code], answer)
             s == <<E("fund_name", answer)>>
         IN  IF o.exc THEN Propagate(c, s)
             ELSE Goto(c,
                       IF is_etf_linked_fund(o.value) THEN "realtime_nav"
                       ELSE "previous_nav",
                       [f EXCEPT !.fund_name = o.value,
                                 !.names = Append(@, o.value)],
                       s)
    /\ UNCHANGED <<now, db, cache, ncalls>>

\* lines 116-121: the previous NAV
PreviousNav(c) ==
    /\ pc[c] = "previous_nav"
    /\ \E answer \in DbAnswers(frame[c].db_session) :
         LET f == frame[c]
             o == _get_previous_nav(f.db_session, db[f.fund_code],
                                    answer = "ok")
             s == <<E("previous_nav", answer)>>
         IN  IF o.exc THEN Propagate(c, s)
             ELSE Goto(c,
                       IF ~TruthyNum(o.value) THEN "realtime_nav"
                       ELSE "holdings",
                       [f EXCEPT !.previous_nav = o.value], s)
    /\ UNCHANGED <<now, db, cache, ncalls>>

\* lines 123-127: the holdings
Holdings(c) ==
    /\ pc[c] = "holdings"
    /\ \E ef \in LibraryOutcomes :
         LET f == frame[c]
             o == get_fund_holdings(f.fund_code, ef, FundPositions(f.fund_code))
             s == <<E("holdings", ef)>>
         IN  IF o.exc THEN Propagate(c, s)
             ELSE Goto(c,
                       IF ~TruthyObj(o.value) THEN "realtime_nav"
                       ELSE "allocation",
                       [f EXCEPT !.holdings = o.value], s)
    /\ UNCHANGED <<now, db, cache, ncalls>>

\* lines 129-131: the asset allocation
Allocation(c) ==
    /\ pc[c] = "allocation"
    /\ \E ef \in LibraryOutcomes :
         LET f == frame[c]
             o == get_fund_asset_allocation(f.fund_code, ef, VendorStockShare)
             s == <<E("allocation", ef)>>
         IN  IF o.exc THEN Propagate(c, s)
             ELSE Goto(c, "stock_prices",
                       [f EXCEPT !.stock_ratio = StockRatioOf(o.value)], s)
    /\ UNCHANGED <<now, db, cache, ncalls>>

\* stock_codes = [h["stock_code"] for h in holdings]
CodesOf(holdings) == [i \in 1..Len(holdings) |-> holdings[i].stock_code]

\* lines 133-156: the quotes and the weighted change; Quotes is the set of
\* quote tables (code -> change in percent) the provider may answer with
StockPrices(c, Quotes) ==
    /\ pc[c] = "stock_prices"
    /\ \E ef \in LibraryOutcomes, df \in Quotes :
         LET f == frame[c]
             o == get_stock_prices(CodesOf(f.holdings), ef, df)
             s == <<E("stock_prices", ef)>>
         IN  IF o.exc THEN Propagate(c, s)
             ELSE LET sums == WeightedLoop(f.holdings, o.value, 1, RZero, RZero)
                  IN  Goto(c, "fund_name2",
                           [f EXCEPT
                              !.stock_prices = o.value,
                              !.total_weight = sums.total_weight,
                              !.weighted_change =
                                  Normalize(sums.weighted_change,
                                            sums.total_weight)],
                           s)
    /\ UNCHANGED <<now, db, cache, ncalls>>

\* the quote tables of the market: every requested stock, or only the first
MarketQuotes(c) ==
    LET codes == CodesOf(frame[c].holdings)
    IN  { [code \in {codes[i] : i \in 1..n} |-> MarketChange(code)] :
            n \in 1..Len(codes) }

\* lines 158-178: the name again, the result and the cache store
FundName2(c) ==
    /\ pc[c] = "fund_name2"
    /\ \E answer \in NameAnswers(frame[c].db_session) :
         LET f == frame[c]
             o == ResolveName(f, db[f.fund_code], answer)
             result == HoldingsResult(f.fund_code, o.value, f.previous_nav,
                                      f.weighted_change, f.stock_ratio,
                                      f.holdings, now)
         IN  IF o.exc
             THEN Propagate(c, <<E("fund_name", answer)>>) /\ cache' = cache
             ELSE /\ cache' = CacheManager_set(cache, RealtimeKey(f.fund_code),
                                               result, cache_realtime_nav_ttl,
                                               now)
                  /\ pc' = [pc EXCEPT ![c] = "done"]
                  /\ ret' = [ret EXCEPT ![c] = result]
                  /\ log' = [log EXCEPT ![c] =
                        @ \o <<E("fund_name", answer), E("cache_set", "ok")>>]
                  /\ frame' = [frame EXCEPT ![c] =
                        [f EXCEPT !.fund_name = o.value,
                                  !.names = Append(@, o.value)]]
    /\ UNCHANGED <<now, db, ncalls>>

\* the vendor's real-time estimate that remembers a failure: an entry without
\* a value is stored under the fund's key when the vendor does not answer
RealtimeNav_caches_failure(c) ==
    /\ pc[c] = "realtime_nav"
    /\ \E http \in HttpOutcomes :
         LET f == frame[c]
             o == get_realtime_nav(f.fund_code, http)
             s == <<E("realtime_nav", http)>>
         IN  IF o.exc \/ ~TruthyObj(o.value)
             THEN /\ Finish(c, None, s)
                  /\ cache' = CacheManager_set(cache, RealtimeKey(f.fund_code),
                                               None, cache_realtime_nav_ttl,
                                               now)
             ELSE /\ Goto(c, "actual_nav", [f EXCEPT !.realtime_data = o.value],
                          s)
                  /\ cache' = cache
    /\ UNCHANGED <<now, db, ncalls>>

\* lines 230-236: the vendor's real-time estimate
RealtimeNav(c) ==
    /\ pc[c] = "realtime_nav"
    /\ \E http \in HttpOutcomes :
         LET f == frame[c]
             o == get_realtime_nav(f.fund_code, http)
             s == <<E("realtime_nav", http)>>
         IN  IF o.exc THEN Finish(c, None, s)
             ELSE IF ~TruthyObj(o.value) THEN Finish(c, None, s)
             ELSE Goto(c, "actual_nav", [f EXCEPT !.realtime_data = o.value], s)
    /\ UNCHANGED <<now, db, cache, ncalls>>

\* what the vendor call inside _get_actual_nav can do, when it is made
ActualNavHttp(f, row, answer) ==
    IF ActualNavAsksVendor(f.db_session, row, answer = "ok")
    THEN HttpOutcomes ELSE {"none"}

\* lines 238-242: the latest actual NAV and the trading-hours flag
ActualNav(c) ==
    /\ pc[c] = "actual_nav"
    /\ \E answer \in DbAnswers(frame[c].db_session) :
       \E http \in ActualNavHttp(frame[c], db[frame[c].fund_code], answer) :
         LET f == frame[c]
             row == db[f.fund_code]
             o == _get_actual_nav(f.db_session, row, answer = "ok",
                                  get_realtime_nav(f.fund_code, http))
             s == IF http = "none" THEN <<E("actual_nav", answer)>>
                  ELSE <<E("actual_nav", answer), E("actual_nav_realtime", http)>>
         IN  IF o.exc THEN Finish(c, None, s)
             ELSE Goto(c, "today_published",
                       [f EXCEPT
                          !.actual_nav =
                              PyOr(o.value, f.realtime_data.current_nav),
                          !.is_trading = is_trading_hours(now)],
                       s)
    /\ UNCHANGED <<now, db, cache, ncalls>>

\* lines 243-266: whether today's NAV is published, and the result
TodayPublished(c) ==
    /\ pc[c] = "today_published"
    /\ \E answer \in DbAnswers(frame[c].db_session) :
         LET f == frame[c]
             o == is_today_nav_published(f.db_session, db[f.fund_code],
                                         answer = "ok")
             s == <<E("today_published", answer)>>
         IN  IF o.exc THEN Finish(c, None, s)
             ELSE Finish(c,
                         TiantianResult(f.fund_code, f.realtime_data,
                                        f.actual_nav, f.is_trading, o.value,
                                        now),
                         s)
    /\ UNCHANGED <<now, db, cache, ncalls>>

\* the caller takes the returned value (or the exception)
Return(c) ==
    /\ pc[c] \in {"done", "raised"}
    /\ pc' = [pc EXCEPT ![c] = "idle"]
    /\ frame' = [frame EXCEPT ![c] = IdleFrame]
    /\ ret' = [ret EXCEPT ![c] = None]
    /\ log' = [log EXCEPT ![c] = <<>>]
    /\ UNCHANGED <<now, db, cache, ncalls>>

\* the amounts of time, in seconds, that pass between two steps
TickSteps == {45}

\* time passes
Tick ==
    /\ \E d \in TickSteps :
         /\ now + d <= MaxTime
         /\ now' = now + d
    /\ UNCHANGED <<db, cache, pc, frame, ret, log, ncalls>>

Step(c) ==
    \/ Call(c)
    \/ FundName(c)
    \/ PreviousNav(c)
    \/ Holdings(c)
    \/ Allocation(c)
    \/ StockPrices(c, MarketQuotes(c))
    \/ FundName2(c)
    \/ RealtimeNav(c)
    \/ ActualNav(c)
    \/ TodayPublished(c)
    \/ Return(c)

Next == (\E c \in SeqCallers : Step(c)) \/ Tick

Spec == Init /\ [][Next]_vars

----------------------------------------------------------------------------
\* The arithmetic of the holdings path on its own: the call stands before
\* the quote fetch with any previous NAV, holdings and stock ratio

Percentages == {0, 40, 60, 100}

Changes == {RInt(-60), RInt(-1), RInt(2)}

CalcRatios == {RZero, R(9, 10), R(95, 100), ROne}

CalcNavs == {RInt(10)}

CalcHoldings ==
    UNION { { [i \in 1..n |-> [stock_code |-> StockCodes[i],
                               percentage |-> p[i]]] :
                p \in [1..n -> Percentages] } : n \in 1..MaxHoldings }

\* any quote table over the requested codes
CalcQuotes(c) ==
    LET codes == CodesOf(frame[c].holdings)
    IN  UNION { [D -> Changes] : D \in SUBSET {codes[i] : i \in 1..Len(codes)} }

CalcLog ==
    <<E("cache_get", "miss"), E("fund_name", "ok"), E("previous_nav", "ok"),
      E("holdings", "ok"), E("allocation", "ok")>>

InitCalc ==
    /\ now = 0
    /\ db = [f \in FundCodes |-> BaseRow]
    /\ cache = <<>>
    /\ pc = [c \in Callers |-> IF c = 1 THEN "stock_prices" ELSE "idle"]
    /\ \E nav \in CalcNavs, h \in CalcHoldings, r \in CalcRatios :
         frame = [c \in Callers |->
                    IF c = 1
                    THEN [IdleFrame EXCEPT !.fund_code = <<"1">>,
                                           !.db_session = TRUE,
                                           !.fund_name = PlainName,
                                           !.names = <<PlainName>>,
                                           !.previous_nav = nav,
                                           !.holdings = h,
                                           !.stock_ratio = r]
                    ELSE IdleFrame]
    /\ ret = [c \in Callers |-> None]
    /\ log = [c \in Callers |-> IF c = 1 THEN CalcLog ELSE <<>>]
    /\ ncalls = 1

NextCalc == StockPrices(1, CalcQuotes(1)) \/ FundName2(1)

SpecCalc == InitCalc /\ [][NextCalc]_vars


----------------------------------------------------------------------------
\* Two runs of get_estimated_nav that differ in the trading-hours state only:
\* caller 1 runs inside trading hours, caller 2 after the close, for the same
\* fund, with the same kind of session, the same storage and the same answers
\* from storage and providers

\* the steps of a call, without the caller taking the result
RunSteps(c) ==
    \/ Call(c)
    \/ FundName(c)
    \/ PreviousNav(c)
    \/ Holdings(c)
    \/ Allocation(c)
    \/ StockPrices(c, MarketQuotes(c))
    \/ FundName2(c)
    \/ RealtimeNav(c)
    \/ ActualNav(c)
    \/ TodayPublished(c)

\* caller 2 has the arguments of caller 1 and, wherever it makes the step
\* caller 1 made, got the answer caller 1 got
SameInputs ==
    /\ frame[2].fund_code = frame[1].fund_code
    /\ frame[2].db_session = frame[1].db_session
    /\ \A i \in 1..Len(log[2]) :
         (i <= Len(log[1]) /\ log[2][i].step = log[1][i].step)
            => log[2][i].answer = log[1][i].answer
    /\ frame[2].stock_prices \in {None, frame[1].stock_prices}

InsideHours ==
    /\ is_trading_hours(now)
    /\ RunSteps(1)

AfterClose ==
    /\ pc[1] = "done"
    /\ ~is_trading_hours(now)
    /\ RunSteps(2)
    /\ SameInputs'

NextPair == InsideHours \/ AfterClose \/ Tick

SpecPair == Init /\ [][NextPair]_vars

----------------------------------------------------------------------------
\* Estimate calls in flight at the same time: the steps of the two callers
\* interleave at the awaits.  Caller 2 is answered by storage and providers
\* that work; caller 1 by any.

InitConc ==
    /\ now = 0
    /\ db = [f \in FundCodes |-> BaseRow]
    /\ cache = <<>>
    /\ pc = [c \in Callers |-> "idle"]
    /\ frame = [c \in Callers |-> IdleFrame]
    /\ ret = [c \in Callers |-> None]
    /\ log = [c \in Callers |-> <<>>]
    /\ ncalls = 0

\* every answer caller c got so far is one of a working storage or provider
Answered(c) ==
    \A i \in 1..Len(log[c]) : log[c][i].answer \in {"miss", "hit", "ok", "none"}

\* the calls in flight are about different funds
DistinctCodes ==
    \/ frame[1].fund_code = None
    \/ frame[2].fund_code = None
    \/ frame[1].fund_code # frame[2].fund_code

NextDistinct ==
    \/ Step(1) /\ DistinctCodes'
    \/ Step(2) /\ DistinctCodes' /\ Answered(2)'
    \/ Tick

SpecDistinct == InitConc /\ [][NextDistinct]_vars

\* the calls in flight are about the same fund
SameCode ==
    \/ frame[1].fund_code = None
    \/ frame[2].fund_code = None
    \/ frame[1].fund_code = frame[2].fund_code

NextSame ==
    \/ Step(1) /\ SameCode'
    \/ Step(2) /\ SameCode' /\ Answered(2)'
    \/ Tick

SpecSame == InitConc /\ [][NextSame]_vars

----------------------------------------------------------------------------
\* A call that returned NotAvailable and the call made for the same fund
\* afterwards.  Caller 1 makes calls answered in any way, one after the
\* other; caller 2 makes the one call that follows a call of caller 1 that
\* returned NotAvailable, for the same fund, and is answered by storage and
\* providers that work.

\* the call of caller c has returned NotAvailable
NotAvailable(c) == pc[c] = "done" /\ ret[c] = None

NextRetry ==
    \/ Step(1) /\ pc[2] = "idle"
    \/ Step(2) /\ NotAvailable(1) /\ pc[2] # "done" /\ SameCode' /\ Answered(2)'
    \/ Tick

SpecRetry == InitConc /\ [][NextRetry]_vars

----------------------------------------------------------------------------
\* tasks/alert_checker.py: check_alerts, one action per awaited step.  In this
\* specification db is the alerts table, frame[1] the locals of the poll and
\* log[1] one record for every alert the current poll has dealt with.

MaxPolls == 2

AlertIds == {1, 2}

AlertTypes == {"price_above", "price_below", "change_percent"}

\* the thresholds the alerts of the model are set to
ThresholdOf(alert_type) ==
    IF alert_type = "change_percent" THEN R(72, 100) ELSE R(10072, 1000)

\* select(Fund).where(Fund.id == fund_id): fund 1 is stored, others are not
FundById(fund_id) ==
    IF fund_id = 1 THEN [code |-> <<"1">>, name |-> PlainName] ELSE None

\* the alerts tables the model starts from
AlertTables ==
    { [a \in AlertIds |->
         IF a = 1
         THEN [fund_id |-> 1, alert_type |-> ty, threshold |-> ThresholdOf(ty),
               is_active |-> act1, last_triggered |-> None]
         ELSE [fund_id |-> f2, alert_type |-> "change_percent",
               threshold |-> ThresholdOf("change_percent"),
               is_active |-> act2, last_triggered |-> None]] :
        ty \in AlertTypes, act1 \in BOOLEAN, act2 \in BOOLEAN, f2 \in {1, 9} }

\* select(Alert).where(Alert.is_active == True), in primary-key order
ActiveAlerts(alerts) == SelectSeq(<<1, 2>>, LAMBDA a : alerts[a].is_active)

\* abs() on a float
RAbs(x) == <<Abs(x[1]), x[2]>>

\* the condition of lines 39-46 with the threshold included
Triggered_inclusive(alert, nav_data) ==
    LET current_nav == nav_data.estimated_nav
        change_percent == nav_data.change_percent
    IN  \/ alert.alert_type = "price_above" /\ RLe(alert.threshold, current_nav)
        \/ alert.alert_type = "price_below" /\ RLe(current_nav, alert.threshold)
        \/ alert.alert_type = "change_percent"
             /\ RLe(alert.threshold, RAbs(change_percent))

\* the condition of lines 39-46 with a cooldown: not again once triggered
Triggered_once(alert, nav_data) ==
    LET current_nav == nav_data.estimated_nav
        change_percent == nav_data.change_percent
        first == alert.last_triggered = None
    IN  \/ first /\ alert.alert_type = "price_above"
             /\ RLt(alert.threshold, current_nav)
        \/ first /\ alert.alert_type = "price_below"
             /\ RLt(current_nav, alert.threshold)
        \/ first /\ alert.alert_type = "change_percent"
             /\ RLt(alert.threshold, RAbs(change_percent))

\* lines 39-46: triggered
Triggered(alert, nav_data) ==
    LET current_nav == nav_data.estimated_nav
        change_percent == nav_data.change_percent
    IN  \/ alert.alert_type = "price_above" /\ RLt(alert.threshold, current_nav)
        \/ alert.alert_type = "price_below" /\ RLt(current_nav, alert.threshold)
        \/ alert.alert_type = "change_percent"
             /\ RLt(alert.threshold, RAbs(change_percent))

\* a commit that writes nothing
Committed_lost(alerts, a, t) == alerts

\* lines 50-51: the alerts table once the stamp of alert a is committed
Committed(alerts, a, t) == [alerts EXCEPT ![a].last_triggered = <<t>>]

\* an exception inside the loop body that ends the whole loop
AfterException_abort(i, n) == n + 1

\* lines 67-69: the position the loop goes on with after an exception in
\* the body for position i of n
AfterException(i, n) == i + 1

\* the weighted changes of the holdings estimates the poll may get
AlertWeightedChanges == {R(8, 1000), R(-2, 100)}

\* get_estimated_nav(fund.code, db_session=db) in one piece: the value it
\* returns and the store it leaves.  A live entry is returned; otherwise the
\* call yields nothing, the vendor's estimate (not stored), or a holdings
\* estimate (stored).
EstimateOutcomes(store, fund_code, t) ==
    LET key == RealtimeKey(fund_code)
        got == CacheManager_get(store, key, t)
    IN  IF TruthyObj(got.value)
        THEN {[value |-> got.value, store |-> got.store]}
        ELSE {[value |-> None, store |-> got.store],
              [value |-> TiantianResult(fund_code,
                                        get_realtime_nav(fund_code, "ok").value,
                                        RInt(10), is_trading_hours(t), FALSE, t),
               store |-> got.store]}
             \cup
             { [value |-> HoldingsResult(fund_code, PlainName, RInt(10), wc,
                                         R(9, 10), FundPositions(fund_code), t),
                store |-> CacheManager_set(
                              got.store, key,
                              HoldingsResult(fund_code, PlainName, RInt(10), wc,
                                             R(9, 10), FundPositions(fund_code), t),
                              cache_realtime_nav_ttl, t)] :
                 wc \in AlertWeightedChanges }

PollFrame == [alerts |-> <<>>, i |-> 0, fund |-> None, nav_data |-> None]

InitAlerts ==
    /\ now = 0
    /\ db \in AlertTables
    /\ cache = <<>>
    /\ pc = [c \in Callers |-> "idle"]
    /\ frame = [c \in Callers |-> PollFrame]
    /\ ret = [c \in Callers |-> None]
    /\ log = [c \in Callers |-> <<>>]
    /\ ncalls = 0

\* the record of what the poll did with alert a
AlertEvent(a, found, nav_data, triggered, stamped, error) ==
    [alert |-> a, last_before |-> db[a].last_triggered, found |-> found,
     nav_data |-> nav_data, triggered |-> triggered, stamped |-> stamped,
     broadcasts |-> 0, error |-> error]

\* the loop goes on at position j, having dealt with the current alert as ev
NextAlert(j, ev) ==
    /\ frame' = [frame EXCEPT ![1] = [@ EXCEPT !.i = j, !.fund = None,
                                               !.nav_data = None]]
    /\ pc' = [pc EXCEPT ![1] = IF j > Len(frame[1].alerts) THEN "idle"
                                ELSE "fund"]
    /\ log' = [log EXCEPT ![1] = @ \o ev]

\* lines 13-18: the poll starts and reads the active alerts
PollStart ==
    /\ pc[1] = "idle"
    /\ ncalls < MaxPolls
    /\ ncalls' = ncalls + 1
    /\ log' = [log EXCEPT ![1] = <<>>]
    /\ \E answer \in {"ok", "raise"} :
         LET alerts == IF answer = "ok" THEN ActiveAlerts(db) ELSE <<>>
         IN  /\ frame' = [frame EXCEPT ![1] =
                             [PollFrame EXCEPT !.alerts = alerts, !.i = 1]]
             /\ pc' = [pc EXCEPT ![1] = IF Len(alerts) = 0 THEN "idle"
                                         ELSE "fund"]
    /\ UNCHANGED <<now, db, cache, ret>>

\* lines 22-28: the fund of the alert
AlertFund ==
    /\ pc[1] = "fund"
    /\ \E answer \in {"ok", "raise"} :
         LET f == frame[1]
             a == f.alerts[f.i]
             fund == FundById(db[a].fund_id)
         IN  IF answer = "raise"
             THEN NextAlert(AfterException(f.i, Len(f.alerts)),
                            <<AlertEvent(a, FALSE, None, FALSE, FALSE, TRUE)>>)
             ELSE IF ~TruthyObj(fund)
             THEN NextAlert(f.i + 1,
                            <<AlertEvent(a, FALSE, None, FALSE, FALSE, FALSE)>>)
             ELSE /\ frame' = [frame EXCEPT ![1] = [f EXCEPT !.fund = fund]]
                  /\ pc' = [pc EXCEPT ![1] = "estimate"]
                  /\ log' = log
    /\ UNCHANGED <<now, db, cache, ret, ncalls>>

\* lines 30-33: the estimate
AlertEstimate ==
    /\ pc[1] = "estimate"
    /\ \E o \in EstimateOutcomes(cache, frame[1].fund.code, now) :
         LET f == frame[1]
             a == f.alerts[f.i]
         IN  /\ cache' = o.store
             /\ IF ~TruthyObj(o.value)
                THEN NextAlert(f.i + 1,
                               <<AlertEvent(a, TRUE, None, FALSE, FALSE, FALSE)>>)
                ELSE /\ frame' = [frame EXCEPT ![1] =
                                     [f EXCEPT !.nav_data = o.value]]
                     /\ pc' = [pc EXCEPT ![1] = "evaluate"]
                     /\ log' = log
    /\ UNCHANGED <<now, db, ret, ncalls>>

\* lines 35-51: the condition, the stamp and its commit
AlertEvaluate ==
    /\ pc[1] = "evaluate"
    /\ LET f == frame[1]
           a == f.alerts[f.i]
           seen == [estimated_nav |-> f.nav_data.estimated_nav,
                    change_percent |-> f.nav_data.change_percent]
       IN  IF ~Triggered(db[a], f.nav_data)
           THEN /\ NextAlert(f.i + 1,
                             <<AlertEvent(a, TRUE, seen, FALSE, FALSE, FALSE)>>)
                /\ db' = db
           ELSE \E answer \in {"ok", "raise"} :
                  IF answer = "raise"
                  THEN /\ NextAlert(AfterException(f.i, Len(f.alerts)),
                                    <<AlertEvent(a, TRUE, seen, TRUE, FALSE, TRUE)>>)
                       /\ db' = db
                  ELSE /\ db' = Committed(db, a, now)
                       /\ pc' = [pc EXCEPT ![1] = "broadcast"]
                       /\ log' = [log EXCEPT ![1] =
                             Append(@, AlertEvent(a, TRUE, seen, TRUE, TRUE, FALSE))]
                       /\ frame' = frame
    /\ UNCHANGED <<now, cache, ret, ncalls>>

\* lines 53-65: the notification
AlertBroadcast ==
    /\ pc[1] = "broadcast"
    /\ \E answer \in {"ok", "raise"} :
         LET f == frame[1]
             j == IF answer = "ok" THEN f.i + 1
                  ELSE AfterException(f.i, Len(f.alerts))
             n == Len(log[1])
         IN  /\ frame' = [frame EXCEPT ![1] = [f EXCEPT !.i = j, !.fund = None,
                                                        !.nav_data = None]]
             /\ pc' = [pc EXCEPT ![1] = IF j > Len(f.alerts) THEN "idle"
                                         ELSE "fund"]
             /\ log' = [log EXCEPT ![1][n].broadcasts = @ + 1,
                                    ![1][n].error = (answer = "raise")]
    /\ UNCHANGED <<now, db, cache, ret, ncalls>>

NextAlerts ==
    \/ PollStart
    \/ AlertFund
    \/ AlertEstimate
    \/ AlertEvaluate
    \/ AlertBroadcast
    \/ Tick /\ pc[1] = "idle"

SpecAlerts == InitAlerts /\ [][NextAlerts]_vars

----------------------------------------------------------------------------
\* core/technical_analysis.py: the indicator pipeline over a series of bars.
\* frame[1].df is the data frame, a record of columns; each column is a
\* sequence with one float per bar.  A float is a rational, NaN or an
\* infinity (the sign of a zero is not kept).

MaxBars == 3

NaN == <<0, 0>>
Inf == <<1, 0>>
NegInf == <<-1, 0>>

Finite(x) == x[2] # 0

FNeg(x) == <<-x[1], x[2]>>

\* the sum of two rationals, over the least common denominator
LAdd(a, b) ==
    LET l == (a[2] \div GCD(a[2], b[2])) * b[2]
    IN  R(a[1] * (l \div a[2]) + b[1] * (l \div b[2]), l)

FAdd(a, b) ==
    IF a = NaN \/ b = NaN THEN NaN
    ELSE IF Finite(a) /\ Finite(b) THEN LAdd(a, b)
    ELSE IF Finite(a) THEN b
    ELSE IF Finite(b) \/ a = b THEN a
    ELSE NaN

FSub(a, b) == FAdd(a, FNeg(b))

FSign(x) == IF x[1] > 0 THEN 1 ELSE IF x[1] < 0 THEN -1 ELSE 0

FMul(a, b) ==
    IF a = NaN \/ b = NaN THEN NaN
    ELSE IF Finite(a) /\ Finite(b) THEN RMul(a, b)
    ELSE IF FSign(a) * FSign(b) = 0 THEN NaN
    ELSE <<FSign(a) * FSign(b), 0>>

FDiv(a, b) ==
    IF a = NaN \/ b = NaN THEN NaN
    ELSE IF Finite(a) /\ Finite(b)
         THEN IF b[1] # 0 THEN RDiv(a, b)
              ELSE IF a[1] = 0 THEN NaN ELSE <<FSign(a), 0>>
    ELSE IF Finite(a) THEN RZero
    ELSE IF Finite(b) THEN (IF FSign(b) < 0 THEN FNeg(a) ELSE a)
    ELSE NaN

RECURSIVE Pow10(_)
Pow10(k) == IF k = 0 THEN 1 ELSE 10 * Pow10(k - 1)

\* k more decimal digits of q + r/d, as the pair of the digits and the rest
RECURSIVE Digits(_, _, _, _)
Digits(q, r, d, k) ==
    IF k = 0 THEN <<q, r>>
    ELSE Digits(q * 10 + (r * 10) \div d, (r * 10) % d, d, k - 1)

\* round(k): to k decimals, a half to the even neighbour
FRound(x, k) ==
    IF ~Finite(x) THEN x
    ELSE LET qr == Digits(x[1] \div x[2], x[1] % x[2], x[2], k)
             up == \/ 2 * qr[2] > x[2]
                   \/ 2 * qr[2] = x[2] /\ qr[1] % 2 = 1
         IN  R(IF up THEN qr[1] + 1 ELSE qr[1], Pow10(k))

\* the bars of a rolling window of size w that ends at bar t
Window(t, w) == {i \in 1..t : i > t - w}

\* the values of column s in a set of bars, NaN left out
Observed(s, I) == {i \in I : s[i] # NaN}

RECURSIVE FSum(_, _)
FSum(s, I) ==
    IF I = {} THEN RZero
    ELSE LET i == CHOOSE x \in I : TRUE
         IN  FAdd(s[i], FSum(s, I \ {i}))

MeanOf(s, I) == FDiv(FSum(s, I), RInt(Cardinality(I)))

\* rolling(window=w, min_periods=1).mean()
rolling_mean(s, w) ==
    [t \in 1..Len(s) |->
        LET I == Observed(s, Window(t, w))
        IN  IF I = {} THEN NaN ELSE MeanOf(s, I)]

\* rolling(window=w, min_periods=1).min() and .max()
rolling_min(s, w) ==
    [t \in 1..Len(s) |->
        LET I == Observed(s, Window(t, w))
        IN  IF I = {} THEN NaN
            ELSE s[CHOOSE i \in I : \A j \in I : RLe(s[i], s[j])]]

rolling_max(s, w) ==
    [t \in 1..Len(s) |->
        LET I == Observed(s, Window(t, w))
        IN  IF I = {} THEN NaN
            ELSE s[CHOOSE i \in I : \A j \in I : RLe(s[j], s[i])]]

\* rolling(window=w, min_periods=1).std(), as its square: the sample
\* variance (ddof = 1), which a single observation does not have
rolling_var(s, w) ==
    [t \in 1..Len(s) |->
        LET I == Observed(s, Window(t, w))
            m == MeanOf(s, I)
            sq == [i \in 1..Len(s) |-> FMul(FSub(s[i], m), FSub(s[i], m))]
        IN  IF Cardinality(I) < 2 THEN NaN
            ELSE FDiv(FSum(sq, I), RInt(Cardinality(I) - 1))]

\* fillna(v)
fillna(s, v) == [t \in 1..Len(s) |-> IF s[t] = NaN THEN v ELSE s[t]]

\* ewm(adjust=False).mean(): alpha = 1 / (1 + com), or 2 / (span + 1)
RECURSIVE EwmAt(_, _, _)
EwmAt(s, alpha, t) ==
    IF t = 1 THEN s[1]
    ELSE FAdd(FMul(FSub(ROne, alpha), EwmAt(s, alpha, t - 1)),
              FMul(alpha, s[t]))

ewm_mean(s, com) == [t \in 1..Len(s) |-> EwmAt(s, R(1, 1 + com), t)]

ewm_span_mean(s, span) == [t \in 1..Len(s) |-> EwmAt(s, R(2, span + 1), t)]

\* the largest integer whose square is at most q, between lo and hi
RECURSIVE ISqrt(_, _, _)
ISqrt(q, lo, hi) ==
    IF lo = hi THEN lo
    ELSE LET mid == (lo + hi + 1) \div 2
         IN  IF mid * mid <= q THEN ISqrt(q, mid, hi)
             ELSE ISqrt(q, lo, mid - 1)

\* round(mid + sign * std_dev * sqrt(var), 4), for mid already rounded to
\* four decimals: in units of 0.0001 the offset is the integer nearest to
\* the square root of std_dev^2 * 10^8 * var
Band(mid, var, std_dev, sign) ==
    IF mid = NaN \/ var = NaN THEN NaN
    ELSE LET scale == std_dev * std_dev * Pow10(8)
             part == (scale % var[2]) * var[1]
             q == (scale \div var[2]) * var[1] + part \div var[2]
             rem == part % var[2]
             f == ISqrt(q, 0, 46340)
             over == q - f * f - f
             r == IF over >= 1 \/ (over = 0 /\ 4 * rem >= var[2])
                  THEN f + 1 ELSE f
         IN  R(mid[1] * (Pow10(4) \div mid[2]) + sign * r, Pow10(4))

\* lines 11-16
calculate_ma(df) ==
    [c \in DOMAIN df \cup {"MA5", "MA10", "MA20", "MA60"} |->
        LET ma(p) == LET m == rolling_mean(df.close, p)
                     IN  [t \in 1..Len(m) |-> FRound(m[t], 4)]
        IN  CASE c = "MA5" -> ma(5)
              [] c = "MA10" -> ma(10)
              [] c = "MA20" -> ma(20)
              [] c = "MA60" -> ma(60)
              [] OTHER -> df[c]]

\* lines 19-27, fast = 12, slow = 26, signal = 9
calculate_macd(df) ==
    LET exp1 == ewm_span_mean(df.close, 12)
        exp2 == ewm_span_mean(df.close, 26)
        DIF == [t \in 1..Len(exp1) |-> FRound(FSub(exp1[t], exp2[t]), 4)]
        dea0 == ewm_span_mean(DIF, 9)
        DEA == [t \in 1..Len(dea0) |-> FRound(dea0[t], 4)]
        HIST == [t \in 1..Len(DIF) |->
                   FRound(FMul(RInt(2), FSub(DIF[t], DEA[t])), 4)]
    IN  [c \in DOMAIN df \cup {"MACD_DIF", "MACD_DEA", "MACD_HIST"} |->
            CASE c = "MACD_DIF" -> DIF
              [] c = "MACD_DEA" -> DEA
              [] c = "MACD_HIST" -> HIST
              [] OTHER -> df[c]]

\* lines 30-43, n = 9, m1 = 3, m2 = 3
calculate_kdj(df) ==
    LET low_list == rolling_min(df.low, 9)
        high_list == rolling_max(df.high, 9)
        rsv == fillna([t \in 1..Len(df.close) |->
                          FMul(FDiv(FSub(df.close[t], low_list[t]),
                                    FSub(high_list[t], low_list[t])),
                               RInt(100))], RInt(50))
        k0 == ewm_mean(rsv, 2)
        K == [t \in 1..Len(k0) |-> FRound(k0[t], 2)]
        d0 == ewm_mean(K, 2)
        D == [t \in 1..Len(d0) |-> FRound(d0[t], 2)]
        J == [t \in 1..Len(K) |->
                FRound(FSub(FMul(RInt(3), K[t]), FMul(RInt(2), D[t])), 2)]
    IN  [c \in DOMAIN df \cup {"KDJ_K", "KDJ_D", "KDJ_J"} |->
            CASE c = "KDJ_K" -> K
              [] c = "KDJ_D" -> D
              [] c = "KDJ_J" -> J
              [] OTHER -> df[c]]

\* line 49: close.diff()
Delta(df) ==
    [t \in 1..Len(df.close) |->
        IF t = 1 THEN NaN ELSE FSub(df.close[t], df.close[t - 1])]

\* lines 51-52: the gains and the losses
Gain(df) ==
    [t \in 1..Len(df.close) |->
        LET d == Delta(df)[t]
        IN  IF d # NaN /\ RLt(RZero, d) THEN d ELSE RZero]

Loss(df) ==
    [t \in 1..Len(df.close) |->
        LET d == Delta(df)[t]
        IN  FNeg(IF d # NaN /\ RLt(d, RZero) THEN d ELSE RZero)]

\* line 56
AvgLoss(df, p) == rolling_mean(Loss(df), p)

\* lines 55-59, for one period p
RsiColumn(df, p) ==
    LET avg_gain == rolling_mean(Gain(df), p)
        avg_loss == AvgLoss(df, p)
    IN  [t \in 1..Len(df.close) |->
            LET rs == FDiv(avg_gain[t],
                           IF avg_loss[t] = RZero THEN Inf ELSE avg_loss[t])
            IN  FRound(FSub(RInt(100), FDiv(RInt(100), FAdd(ROne, rs))), 2)]

\* lines 46-61
calculate_rsi(df) ==
    [c \in DOMAIN df \cup {"RSI6", "RSI12", "RSI24"} |->
        CASE c = "RSI6" -> RsiColumn(df, 6)
          [] c = "RSI12" -> RsiColumn(df, 12)
          [] c = "RSI24" -> RsiColumn(df, 24)
          [] OTHER -> df[c]]

\* lines 64-71, period = 20, std_dev = 2
calculate_boll(df) ==
    LET m == rolling_mean(df.close, 20)
        MID == [t \in 1..Len(m) |-> FRound(m[t], 4)]
        rolling_std2 == rolling_var(df.close, 20)
    IN  [c \in DOMAIN df \cup {"BOLL_MID", "BOLL_UPPER", "BOLL_LOWER"} |->
            CASE c = "BOLL_MID" -> MID
              [] c = "BOLL_UPPER" ->
                    [t \in 1..Len(MID) |-> Band(MID[t], rolling_std2[t], 2, 1)]
              [] c = "BOLL_LOWER" ->
                    [t \in 1..Len(MID) |-> Band(MID[t], rolling_std2[t], 2, -1)]
              [] OTHER -> df[c]]

\* the bars: close, high and low, with low <= close <= high
Bars ==
    { [close |-> RInt(1), high |-> RInt(1), low |-> RInt(1)],
      [close |-> RInt(2), high |-> RInt(2), low |-> RInt(1)],
      [close |-> RInt(3), high |-> RInt(3), low |-> RInt(2)],
      [close |-> RInt(2), high |-> RInt(3), low |-> RInt(2)] }

BarSeries == UNION {[1..n -> Bars] : n \in 1..MaxBars}

\* the frame of a series of bars, before any indicator
FrameOf(bars) ==
    [close |-> [t \in 1..Len(bars) |-> bars[t].close],
     high |-> [t \in 1..Len(bars) |-> bars[t].high],
     low |-> [t \in 1..Len(bars) |-> bars[t].low]]

InitIndicators ==
    /\ now = 0
    /\ db = <<>>
    /\ cache = <<>>
    /\ pc = [c \in Callers |-> IF c = 1 THEN "ma" ELSE "idle"]
    /\ \E bars \in BarSeries :
         frame = [c \in Callers |-> IF c = 1 THEN [df |-> FrameOf(bars)]
                                     ELSE None]
    /\ ret = [c \in Callers |-> None]
    /\ log = [c \in Callers |-> <<>>]
    /\ ncalls = 0

\* the steps of calculate_all (lines 74-82), each adding its columns
CalculateMa ==
    /\ pc[1] = "ma"
    /\ frame' = [frame EXCEPT ![1] = [df |-> calculate_ma(frame[1].df)]]
    /\ pc' = [pc EXCEPT ![1] = "macd"]
    /\ UNCHANGED <<now, db, cache, ret, log, ncalls>>

CalculateMacd ==
    /\ pc[1] = "macd"
    /\ frame' = [frame EXCEPT ![1] = [df |-> calculate_macd(frame[1].df)]]
    /\ pc' = [pc EXCEPT ![1] = "kdj"]
    /\ UNCHANGED <<now, db, cache, ret, log, ncalls>>

CalculateKdj ==
    /\ pc[1] = "kdj"
    /\ frame' = [frame EXCEPT ![1] = [df |-> calculate_kdj(frame[1].df)]]
    /\ pc' = [pc EXCEPT ![1] = "rsi"]
    /\ UNCHANGED <<now, db, cache, ret, log, ncalls>>

CalculateRsi ==
    /\ pc[1] = "rsi"
    /\ frame' = [frame EXCEPT ![1] = [df |-> calculate_rsi(frame[1].df)]]
    /\ pc' = [pc EXCEPT ![1] = "boll"]
    /\ UNCHANGED <<now, db, cache, ret, log, ncalls>>

CalculateBoll ==
    /\ pc[1] = "boll"
    /\ frame' = [frame EXCEPT ![1] = [df |-> calculate_boll(frame[1].df)]]
    /\ pc' = [pc EXCEPT ![1] = "done"]
    /\ UNCHANGED <<now, db, cache, ret, log, ncalls>>

NextIndicators ==
    \/ CalculateMa
    \/ CalculateMacd
    \/ CalculateKdj
    \/ CalculateRsi
    \/ CalculateBoll

SpecIndicators == InitIndicators /\ [][NextIndicators]_vars

----------------------------------------------------------------------------
\* The cache on its own: any of its operations, on the keys of the two funds,
\* as time passes.  log[1] is the history of the operations.

MaxOps == 3

CacheKeys == {RealtimeKey(code) : code \in FundCodes}

\* values to store: two results, cut down to one field
CacheValues == {[estimated_nav |-> RInt(10)], [estimated_nav |-> R(101, 10)]}

CacheTtls == {30, 45}

\* f"fund:{code}" as the write paths use it, and a fragment from inside a key
CachePatterns ==
    {get_cache_key(<<"f", "u", "n", "d">>, <<code>>) : code \in FundCodes}
        \cup {<<"n", "a", "v">>}

InitCache ==
    /\ now = 0
    /\ db = [f \in FundCodes |-> BaseRow]
    /\ cache = <<>>
    /\ pc = [c \in Callers |-> "idle"]
    /\ frame = [c \in Callers |-> IdleFrame]
    /\ ret = [c \in Callers |-> None]
    /\ log = [c \in Callers |-> <<>>]
    /\ ncalls = 0

\* an operation on the cache is made and recorded
CacheOp(store, step, answer) ==
    /\ ncalls < MaxOps
    /\ ncalls' = ncalls + 1
    /\ cache' = store
    /\ log' = [log EXCEPT ![1] = Append(@, E(step, answer))]
    /\ UNCHANGED <<now, db, pc, frame>>

CacheGet ==
    \E key \in CacheKeys :
        LET got == CacheManager_get(cache, key, now)
        IN  /\ CacheOp(got.store, "get",
                       [key |-> key, t |-> now, result |-> got.value])
            /\ ret' = [ret EXCEPT ![1] = got.value]

CacheSet ==
    \E key \in CacheKeys, value \in CacheValues, ttl \in CacheTtls :
        /\ CacheOp(CacheManager_set(cache, key, value, ttl, now), "set",
                   [key |-> key, value |-> value, ttl |-> ttl, t |-> now])
        /\ ret' = ret

CacheDelete ==
    \E key \in CacheKeys :
        /\ CacheOp(CacheManager_delete(cache, key), "delete",
                   [key |-> key, t |-> now])
        /\ ret' = ret

CacheDeletePattern ==
    \E pattern \in CachePatterns :
        /\ CacheOp(CacheManager_delete_pattern(cache, pattern),
                   "delete_pattern", [pattern |-> pattern, t |-> now])
        /\ ret' = ret

CacheClear ==
    /\ CacheOp(CacheManager_clear(cache), "clear", [t |-> now])
    /\ ret' = ret

NextCache ==
    CacheGet \/ CacheSet \/ CacheDelete \/ CacheDeletePattern \/ CacheClear
        \/ Tick

SpecCache == InitCache /\ [][NextCache]_vars

----------------------------------------------------------------------------
\* api/v1/endpoints: the handlers that write a fund or a portfolio and drop
\* its cache entries, and the handlers that fill the cache.  In this
\* specification db holds the rows of the funds and of the portfolios, each
\* action is one request, and log[1] is the last request with the cache it
\* found.

PortfolioIds == {1, 10}

cache_history_ttl == 21600

cache_portfolio_ttl == 300

DigitChars == <<"0", "1", "2", "3", "4", "5", "6", "7", "8", "9">>

\* str(n) of an integer n >= 0
RECURSIVE str(_)
str(n) ==
    IF n < 10 THEN <<DigitChars[n + 1]>>
    ELSE str(n \div 10) \o <<DigitChars[(n % 10) + 1]>>

\* str(None)
NoneText == <<"N", "o", "n", "e">>

\* funds.py line 310, for a request without start_date and end_date
HistoryKey(code) ==
    get_cache_key(<<"f", "u", "n", "d">>,
                  << code, <<"n", "a", "v">>,
                     <<"h", "i", "s", "t", "o", "r", "y">>, NoneText, NoneText >>)

\* portfolio.py line 217
PerformanceKey(portfolio_id) ==
    get_cache_key(<<"p", "o", "r", "t", "f", "o", "l", "i", "o">>,
                  << str(portfolio_id),
                     <<"p", "e", "r", "f", "o", "r", "m", "a", "n", "c", "e">> >>)

\* f"fund:{code}"
FundPattern(code) == <<"f", "u", "n", "d", ":">> \o code

\* f"portfolio:{portfolio_id}"
PortfolioPattern(portfolio_id) ==
    <<"p", "o", "r", "t", "f", "o", "l", "i", "o", ":">> \o str(portfolio_id)

\* the name a fund or a portfolio is renamed to
NewName == <<"N", "E", "W">>

\* the fund each portfolio holds
PortfolioFund(portfolio_id) == IF portfolio_id = 1 THEN <<"1">> ELSE <<"1", "0">>

InitInvalidate ==
    /\ now = 0
    /\ db = [funds |-> [f \in FundCodes |-> BaseRow],
             portfolios |-> [p \in PortfolioIds |->
                                [exists |-> TRUE, name |-> PlainName]]]
    /\ cache = <<>>
    /\ pc = [c \in Callers |-> "idle"]
    /\ frame = [c \in Callers |-> IdleFrame]
    /\ ret = [c \in Callers |-> None]
    /\ log = [c \in Callers |-> <<>>]
    /\ ncalls = 0

\* what the storage calls of a writing handler can do: all succeed, or the
\* query, the commit or the refresh raises
WriteAnswers == {"ok", "raise_query", "raise_commit", "raise_refresh"}

\* a request op about target is served: it leaves the storage as rows and the
\* cache as store
Request(op, target, rows, store) ==
    /\ ncalls < MaxOps
    /\ ncalls' = ncalls + 1
    /\ db' = rows
    /\ cache' = store
    /\ log' = [log EXCEPT ![1] = <<[op |-> op, target |-> target,
                                    before |-> cache]>>]
    /\ UNCHANGED <<now, pc, frame>>

\* funds.py lines 266-290
update_fund ==
    \E code \in FundCodes, answer \in WriteAnswers :
        LET found == answer # "raise_query" /\ db.funds[code].exists
            committed == found /\ answer # "raise_commit"
        IN  /\ Request("update_fund", code,
                       IF committed
                       THEN [db EXCEPT !.funds[code].name = NewName]
                       ELSE db,
                       IF committed /\ answer = "ok"
                       THEN CacheManager_delete_pattern(cache, FundPattern(code))
                       ELSE cache)
            /\ ret' = ret

\* portfolio.py lines 70-94
update_portfolio ==
    \E portfolio_id \in PortfolioIds, answer \in WriteAnswers :
        LET found == answer # "raise_query" /\ db.portfolios[portfolio_id].exists
            committed == found /\ answer # "raise_commit"
        IN  /\ Request("update_portfolio", portfolio_id,
                       IF committed
                       THEN [db EXCEPT !.portfolios[portfolio_id].name = NewName]
                       ELSE db,
                       IF committed /\ answer = "ok"
                       THEN CacheManager_delete_pattern(
                                cache, PortfolioPattern(portfolio_id))
                       ELSE cache)
            /\ ret' = ret

\* the rows of a fund's history, by date
HistoryResponse(navs) ==
    LET dates == SelectSeq([i \in 1..(Today + 1) |-> i - 1],
                           LAMBDA d : d \in DOMAIN navs)
    IN  [i \in 1..Len(dates) |-> [date |-> dates[i], nav |-> navs[dates[i]]]]

\* funds.py lines 293-333
get_nav_history ==
    \E code \in FundCodes, answer \in {"ok", "raise_fund", "raise_history"} :
        LET cache_key == HistoryKey(code)
            cached == CacheManager_get(cache, cache_key, now)
            response == HistoryResponse(db.funds[code].navs)
        IN  /\ Request("get_nav_history", code, db,
                       IF answer = "raise_fund" \/ ~db.funds[code].exists
                       THEN cache
                       ELSE IF TruthyObj(cached.value)
                               \/ answer = "raise_history"
                       THEN cached.store
                       ELSE CacheManager_set(cached.store, cache_key, response,
                                             cache_history_ttl, now))
            /\ ret' = ret

\* get_estimated_nav(item.fund.code), without a session, in one piece: a
\* live entry is returned; otherwise the vendor's estimate or nothing, and
\* nothing is stored
EstimateWithoutSession(store, fund_code, t) ==
    LET got == CacheManager_get(store, RealtimeKey(fund_code), t)
    IN  IF TruthyObj(got.value)
        THEN {[value |-> got.value, store |-> got.store]}
        ELSE {[value |-> None, store |-> got.store],
              [value |-> TiantianResult(fund_code,
                                        get_realtime_nav(fund_code, "ok").value,
                                        RInt(10), is_trading_hours(t), FALSE, t),
               store |-> got.store]}

\* portfolio.py lines 213-279, for a portfolio of one item with a cost
\* basis of 10
get_portfolio_performance ==
    \E portfolio_id \in PortfolioIds, answer \in {"ok", "raise"} :
        LET cache_key == PerformanceKey(portfolio_id)
            cached == CacheManager_get(cache, cache_key, now)
            fund_code == PortfolioFund(portfolio_id)
        IN  IF TruthyObj(cached.value) \/ answer = "raise"
               \/ ~db.portfolios[portfolio_id].exists
            THEN /\ Request("get_portfolio_performance", portfolio_id, db,
                            cached.store)
                 /\ ret' = ret
            ELSE \E o \in EstimateWithoutSession(cached.store, fund_code, now) :
                    LET current_nav == IF TruthyObj(o.value)
                                       THEN o.value.estimated_nav ELSE RInt(10)
                        performance ==
                            [portfolio_id |-> portfolio_id,
                             holdings |-> <<[fund_code |-> fund_code,
                                             fund_name |-> db.funds[fund_code].name,
                                             current_nav |-> current_nav]>>]
                    IN  /\ Request("get_portfolio_performance", portfolio_id,
                                   db,
                                   CacheManager_set(o.store, cache_key,
                                                    performance,
                                                    cache_portfolio_ttl, now))
                        /\ ret' = ret

\* funds.py lines 336-354: get_estimated_nav(code, db_session=db)
get_realtime_nav_endpoint ==
    \E code \in FundCodes :
        \E o \in EstimateOutcomes(cache, code, now) :
            /\ db.funds[code].exists
            /\ Request("get_realtime_nav", code, db, o.store)
            /\ ret' = [ret EXCEPT ![1] = o.value]

NextInvalidate ==
    \/ update_fund
    \/ update_portfolio
    \/ get_nav_history
    \/ get_portfolio_performance
    \/ get_realtime_nav_endpoint
    \/ Tick

SpecInvalidate == InitInvalidate /\ [][NextInvalidate]_vars

----------------------------------------------------------------------------
\* Writers next to the estimate: update_fund (a rename) or sync_nav_data runs
\* in slot 2 while caller 1 calls get_estimated_nav; their steps interleave at
\* the awaits.  log[2] records the writes that started and the invalidations
\* they made, each with the number of estimate calls started before it.

MaxWrites == 1

\* the records the provider has for the last seven days: today's NAV
SyncedRecords == <<[date |-> Today, nav |-> R(102, 10)]>>

\* f"fund:{fund.code}:nav:history"
SyncPattern(code) ==
    get_cache_key(<<"f", "u", "n", "d">>,
                  << code, <<"n", "a", "v">>,
                     <<"h", "i", "s", "t", "o", "r", "y">> >>)

\* the names a rename gives: a plain one, or one with the feeder-fund marker
RenameTargets == {NewName, LinkedName}

\* the locals of the writer
WriterFrame ==
    [op |-> "none", code |-> None, old_name |-> None, new_name |-> None,
     funds |-> <<>>, i |-> 0, records |-> <<>>, j |-> 0, pending |-> <<>>]

InitWrites ==
    /\ now = 0
    /\ db = [f \in FundCodes |-> BaseRow]
    /\ cache = <<>>
    /\ pc = [c \in Callers |-> "idle"]
    /\ frame = [c \in Callers |-> IF c = 1 THEN IdleFrame ELSE WriterFrame]
    /\ ret = [c \in Callers |-> None]
    /\ log = [c \in Callers |-> <<>>]
    /\ ncalls = 0

WritesStarted ==
    Cardinality({i \in 1..Len(log[2]) : log[2][i].step = "start"})

\* the writer moves to step p with its locals changed to f, having made s
WriterGoto(p, f, s) ==
    /\ pc' = [pc EXCEPT ![2] = p]
    /\ frame' = [frame EXCEPT ![2] = f]
    /\ log' = [log EXCEPT ![2] = @ \o s]

\* funds.py lines 266-274: the request and the query of the fund
UpdateFundQuery ==
    /\ pc[2] = "idle"
    /\ WritesStarted < MaxWrites
    /\ \E code \in FundCodes, name \in RenameTargets, answer \in {"ok", "raise"} :
         LET found == answer = "ok" /\ db[code].exists
         IN  WriterGoto(IF found THEN "update_commit" ELSE "idle",
                        IF found
                        THEN [WriterFrame EXCEPT !.op = "update_fund",
                                                 !.code = code,
                                                 !.old_name = db[code].name,
                                                 !.new_name = name]
                        ELSE WriterFrame,
                        <<E("start", [op |-> "update_fund", code |-> code])>>)
    /\ UNCHANGED <<now, db, cache, ret, ncalls>>

\* funds.py lines 276-284: the new name and the commit
UpdateFundCommit ==
    /\ pc[2] = "update_commit"
    /\ \E answer \in {"ok", "raise"} :
         IF answer = "ok"
         THEN /\ db' = [db EXCEPT ![frame[2].code].name = frame[2].new_name]
              /\ WriterGoto("update_refresh", frame[2], <<>>)
         ELSE /\ db' = db
              /\ WriterGoto("idle", WriterFrame, <<>>)
    /\ UNCHANGED <<now, cache, ret, ncalls>>

\* funds.py lines 285-290: the refresh and the invalidation
UpdateFundRefresh ==
    /\ pc[2] = "update_refresh"
    /\ \E answer \in {"ok", "raise"} :
         IF answer = "ok"
         THEN /\ cache' = CacheManager_delete_pattern(
                              cache, FundPattern(frame[2].code))
              /\ WriterGoto("idle", WriterFrame,
                            <<E("invalidate",
                                [op |-> "update_fund", code |-> frame[2].code,
                                 old_name |-> frame[2].old_name,
                                 new_name |-> frame[2].new_name,
                                 calls |-> ncalls])>>)
         ELSE /\ cache' = cache
              /\ WriterGoto("idle", WriterFrame, <<>>)
    /\ UNCHANGED <<now, db, ret, ncalls>>

\* data_sync.py lines 11-22: the task starts and reads the tracked funds
SyncStart ==
    /\ pc[2] = "idle"
    /\ WritesStarted < MaxWrites
    /\ \E answer \in {"ok", "raise"} :
         LET funds == IF answer = "ok"
                      THEN SelectSeq(<< <<"1">>, <<"1", "0">> >>,
                                     LAMBDA f : db[f].exists)
                      ELSE <<>>
         IN  WriterGoto(IF Len(funds) = 0 THEN "idle" ELSE "sync_fetch",
                        IF Len(funds) = 0 THEN WriterFrame
                        ELSE [WriterFrame EXCEPT !.op = "sync_nav_data",
                                                 !.funds = funds, !.i = 1,
                                                 !.code = funds[1]],
                        <<E("start", [op |-> "sync_nav_data", code |-> None])>>)
    /\ UNCHANGED <<now, db, cache, ret, ncalls>>

\* the loop over the funds goes on after fund i
SyncNextFund(s) ==
    LET f == frame[2]
    IN  IF f.i + 1 > Len(f.funds)
        THEN WriterGoto("idle", WriterFrame, s)
        ELSE WriterGoto("sync_fetch",
                        [WriterFrame EXCEPT !.op = "sync_nav_data",
                                            !.funds = f.funds, !.i = f.i + 1,
                                            !.code = f.funds[f.i + 1]],
                        s)

\* data_sync.py lines 26-33: the history of the last seven days
SyncFetch ==
    /\ pc[2] = "sync_fetch"
    /\ \E historical_data \in {SyncedRecords, <<>>} :
         WriterGoto(IF Len(historical_data) = 0 THEN "sync_commit"
                    ELSE "sync_upsert",
                    [frame[2] EXCEPT !.records = historical_data, !.j = 1],
                    <<>>)
    /\ UNCHANGED <<now, db, cache, ret, ncalls>>

\* data_sync.py lines 36-59: the record is looked up and updated or added
SyncUpsert ==
    /\ pc[2] = "sync_upsert"
    /\ \E answer \in {"ok", "raise"} :
         LET f == frame[2]
         IN  IF answer = "raise" THEN SyncNextFund(<<>>)
             ELSE WriterGoto(IF f.j + 1 > Len(f.records) THEN "sync_commit"
                             ELSE "sync_upsert",
                             [f EXCEPT !.pending = Append(@, f.records[f.j]),
                                       !.j = f.j + 1],
                             <<>>)
    /\ UNCHANGED <<now, db, cache, ret, ncalls>>

\* the history with the pending records written
Upserted(navs, pending) ==
    [d \in (DOMAIN navs) \cup {pending[k].date : k \in 1..Len(pending)} |->
        IF \E k \in 1..Len(pending) : pending[k].date = d
        THEN pending[CHOOSE k \in 1..Len(pending) : pending[k].date = d].nav
        ELSE navs[d]]

\* data_sync.py lines 61-70: the commit and the invalidation; a commit that
\* raises writes nothing
SyncCommit ==
    /\ pc[2] = "sync_commit"
    /\ \E answer \in {"ok", "raise"} :
         LET f == frame[2]
         IN  IF answer = "ok"
             THEN /\ db' = [db EXCEPT ![f.code].navs = Upserted(@, f.pending)]
                  /\ cache' = CacheManager_delete_pattern(
                                  cache, SyncPattern(f.code))
                  /\ SyncNextFund(<<E("invalidate",
                                      [op |-> "sync_nav_data", code |-> f.code,
                                       old_name |-> None, new_name |-> None,
                                       calls |-> ncalls])>>)
             ELSE /\ db' = db
                  /\ cache' = cache
                  /\ SyncNextFund(<<>>)
    /\ UNCHANGED <<now, ret, ncalls>>

\* the estimate calls next to renames; storage and providers answer caller 1
NextRename ==
    \/ Step(1) /\ Answered(1)'
    \/ UpdateFundQuery
    \/ UpdateFundCommit
    \/ UpdateFundRefresh
    \/ Tick

SpecRename == InitWrites /\ [][NextRename]_vars

\* the estimate calls next to the NAV synchronisation
NextSync ==
    \/ Step(1) /\ Answered(1)'
    \/ SyncStart
    \/ SyncFetch
    \/ SyncUpsert
    \/ SyncCommit
    \/ Tick

SpecSync == InitWrites /\ [][NextSync]_vars

----------------------------------------------------------------------------
\* Properties

\* the steps a call has made
StepsOf(c) == {log[c][i].step : i \in 1..Len(log[c])}

\* the call has returned a result it computed itself (after a cache miss)
Computed(c) ==
    pc[c] = "done" /\ ret[c] # None /\ log[c][1] = E("cache_get", "miss")

\* the call has returned a value taken from the cache
ServedFromCache(c) ==
    pc[c] = "done" /\ log[c] = <<E("cache_get", "hit")>>

\* the entry of a fund's realtime key is in the store and is not expired at t
Live(store, fund_code, t) ==
    /\ RealtimeKey(fund_code) \in DOMAIN store
    /\ t <= store[RealtimeKey(fund_code)].expires_at

\* the name carries the feeder-fund marker
HasMarker(name) == Contains(name, Marker)

HoldingsPathSteps == {"previous_nav", "holdings", "allocation", "stock_prices"}

\* C1: every result computed after a cache miss, whichever method produced
\* it, is in the cache under the fund's realtime key with the configured TTL.
C1_ComputedResultIsCached ==
    \A c \in Callers :
        Computed(c) =>
            /\ RealtimeKey(frame[c].fund_code) \in DOMAIN cache
            /\ cache[RealtimeKey(frame[c].fund_code)] =
                   [value |-> ret[c],
                    expires_at |-> ret[c].last_update + cache_realtime_nav_ttl]

\* C2: a call that finds a live entry for its fund returns the stored value,
\* makes no other step and leaves the whole cache unchanged.
C2_LiveEntryServedVerbatim ==
    [][\A c \in Callers :
         (pc[c] = "idle" /\ pc'[c] # "idle"
            /\ Live(cache, frame'[c].fund_code, now))
         => /\ pc'[c] = "done"
            /\ ret'[c] = cache[RealtimeKey(frame'[c].fund_code)].value
            /\ log'[c] = <<E("cache_get", "hit")>>
            /\ cache' = cache]_vars

C2_Witness ==
    \E c \in Callers :
        /\ ServedFromCache(c)
        /\ ret[c] # None
        /\ Live(cache, frame[c].fund_code, now)
        /\ ret[c] = cache[RealtimeKey(frame[c].fund_code)].value

\* C3: a call whose name lookup resolved a name with the feeder-fund marker
\* returns only tiantian_api results and never enters the holdings path.
C3_LinkedFundUsesVendor ==
    \A c \in Callers :
        (Len(frame[c].names) >= 1 /\ HasMarker(frame[c].names[1]))
        => /\ StepsOf(c) \cap HoldingsPathSteps = {}
           /\ pc[c] # "fund_name2"
           /\ (pc[c] = "done" /\ ret[c] # None
                 => ret[c].calculation_method = "tiantian_api")

\* a linked fund with a session, a stored previous NAV and a vendor estimate
C3_Witness ==
    \E c \in Callers :
        /\ Computed(c)
        /\ HasMarker(frame[c].names[1])
        /\ frame[c].db_session
        /\ db[frame[c].fund_code].exists
        /\ 0 \in DOMAIN db[frame[c].fund_code].navs
        /\ ret[c].calculation_method = "tiantian_api"

\* C4: a vendor-fallback result for a fund with a NAV record dated today has
\* change_percent = 0 and estimated_nav = current_nav = today's stored NAV,
\* for every caller.
C4_PublishedNavReported ==
    \A c \in Callers :
        (/\ Computed(c)
         /\ ret[c].calculation_method = "tiantian_api"
         /\ db[frame[c].fund_code].exists
         /\ Today \in DOMAIN db[frame[c].fund_code].navs)
        => /\ ret[c].change_percent = RZero
           /\ ret[c].estimated_nav = ret[c].current_nav
           /\ ret[c].current_nav = db[frame[c].fund_code].navs[Today]

\* C5: for a fund classified as not linked, the vendor tier is entered if and
\* only if the previous NAV is absent or the holdings list is empty.
C5_FallbackIffNoNavOrNoHoldings ==
    \A c \in Callers :
        (/\ pc[c] = "done"
         /\ Len(frame[c].names) >= 1
         /\ ~HasMarker(frame[c].names[1]))
        => (("realtime_nav" \in StepsOf(c))
              <=> (\/ frame[c].previous_nav = None
                   \/ ("holdings" \in StepsOf(c) /\ frame[c].holdings = <<>>)))


\* the answers with which the vendor's real-time call yields nothing
VendorNothing == {"raise", "empty"}

\* C6: once the vendor call of the fallback tier has failed or returned
\* nothing, the call has returned None, whatever NAV is stored.
C6_VendorFailureIsNotAvailable ==
    \A c \in Callers :
        (\E i \in 1..Len(log[c]) :
            log[c][i].step = "realtime_nav" /\ log[c][i].answer \in VendorNothing)
        => pc[c] = "done" /\ ret[c] = None

\* the vendor fails for a fund read with a session whose NAV of today is stored
C6_Witness ==
    \E c \in Callers :
        /\ pc[c] = "done" /\ ret[c] = None
        /\ "realtime_nav" \in StepsOf(c)
        /\ frame[c].db_session
        /\ db[frame[c].fund_code].exists
        /\ Today \in DOMAIN db[frame[c].fund_code].navs

\* the answers that are failures of a provider or of storage
Failures == {"raise", "raise_ok", "raise_raise"}

\* C7: whatever fails, no exception leaves get_estimated_nav, the call is
\* over after at most eight external steps, and None is returned only by the
\* vendor tier whose real-time call yielded nothing.
C7_NeverRaises ==
    \A c \in Callers :
        /\ pc[c] # "raised"
        /\ Len(log[c]) <= 8
        /\ Len(log[c]) = 8 => pc[c] = "done"
        /\ (pc[c] = "done" /\ ret[c] = None)
             => /\ log[c][Len(log[c])].step = "realtime_nav"
                /\ log[c][Len(log[c])].answer \in VendorNothing

\* a result is returned although the name lookups, the allocation fetch and
\* the quote fetch all failed
C7_Witness ==
    \E c \in Callers :
        /\ Computed(c)
        /\ \A i \in 1..Len(log[c]) :
             log[c][i].step \in {"fund_name", "allocation", "stock_prices"}
               => log[c][i].answer \in Failures
        /\ "stock_prices" \in StepsOf(c)

\* the optional fields of a result agree with its calculation_method
MethodMatchesFields(r) ==
    /\ (r.calculation_method = "holdings_based")
         <=> (r.stock_ratio # None /\ r.holdings_count # None)
    /\ r.calculation_method = "tiantian_api"
         => (r.stock_ratio = None /\ r.holdings_count = None)
    /\ r.calculation_method \in {"holdings_based", "tiantian_api"}

\* C8: in every returned or cached result, calculation_method is
\* holdings_based exactly when stock_ratio and holdings_count are present,
\* and a tiantian_api result has neither.
C8_MethodDeterminesFields ==
    /\ \A c \in Callers :
         (pc[c] = "done" /\ ret[c] # None) => MethodMatchesFields(ret[c])
    /\ \A k \in DOMAIN cache : MethodMatchesFields(cache[k].value)

\* a holdings_based result is served from the cache
C8_Witness ==
    \E c \in Callers :
        /\ ServedFromCache(c)
        /\ ret[c] # None
        /\ ret[c].calculation_method = "holdings_based"
        /\ ret[c].holdings_count = RInt(2)

\* C9: estimated_nav >= 0 and current_nav >= 0 in every returned result.
C9_NavsNonNegative ==
    \A c \in Callers :
        (pc[c] = "done" /\ ret[c] # None)
        => /\ RLe(RZero, ret[c].estimated_nav)
           /\ RLe(RZero, ret[c].current_nav)

\* the sum of g over the positions in P
RECURSIVE RSum(_, _)
RSum(P, g) ==
    IF P = {} THEN RZero
    ELSE LET i == CHOOSE x \in P : TRUE
         IN  RAdd(g[i], RSum(P \ {i}, g))

NoQuotes(c) ==
    /\ Len(log[c]) >= 6
    /\ log[c][6].step = "stock_prices"
    /\ log[c][6].answer \in {"raise", "empty"}

\* the latest stored NAV of the fund the call is about
StoredPreviousNav(c) ==
    LET navs == db[frame[c].fund_code].navs
    IN  navs[LatestDate(navs)]

\* C11: when the quote fetch fails or returns no quote, the call stays on the
\* holdings path: no exception, no vendor fetch, weighted change 0, and the
\* result is holdings_based with estimated_nav = current_nav = the previous
\* NAV and change_percent 0, stored in the cache with the configured TTL.
C11_NoQuotesKeepsPreviousNav ==
    \A c \in Callers :
        NoQuotes(c) =>
            /\ pc[c] \in {"fund_name2", "done"}
            /\ "realtime_nav" \notin StepsOf(c)
            /\ frame[c].weighted_change = RZero
            /\ pc[c] = "done" =>
                  /\ ret[c] # None
                  /\ ret[c].calculation_method = "holdings_based"
                  /\ ret[c].estimated_nav = StoredPreviousNav(c)
                  /\ ret[c].current_nav = StoredPreviousNav(c)
                  /\ ret[c].change_percent = RZero
                  /\ RealtimeKey(frame[c].fund_code) \in DOMAIN cache
                  /\ cache[RealtimeKey(frame[c].fund_code)] =
                        [value |-> ret[c],
                         expires_at |-> ret[c].last_update
                                          + cache_realtime_nav_ttl]

\* a call whose quote fetch raised has returned the previous NAV of 10
C11_Witness ==
    \E c \in Callers :
        /\ pc[c] = "done"
        /\ NoQuotes(c)
        /\ log[c][6].answer = "raise"
        /\ ret[c] # None
        /\ ret[c].estimated_nav = RInt(10)
        /\ RealtimeKey(frame[c].fund_code) \in DOMAIN cache

\* the call went down the holdings path with every provider answering and a
\* quote for both holdings: A 60% +2%, B 40% -1%, stock share 90%
FullyQuoted(c) ==
    /\ Computed(c)
    /\ ret[c].calculation_method = "holdings_based"
    /\ log[c][4] = E("holdings", "ok")
    /\ log[c][5] = E("allocation", "ok")
    /\ log[c][6] = E("stock_prices", "ok")
    /\ DOMAIN frame[c].stock_prices = {"A", "B"}

\* C12: a computed holdings_based result has estimated_nav = previous_nav *
\* (1 + weighted_change * stock_ratio), change_percent = weighted_change *
\* stock_ratio * 100 and current_nav = previous_nav; for A 60% +2%, B 40% -1%,
\* stock ratio 0.9, previous NAV 10 that is weighted change 0.008, estimated
\* NAV 10.072 and change 0.72.
C12_HoldingsFormula ==
    \A c \in Callers :
        (Computed(c) /\ ret[c].calculation_method = "holdings_based") =>
            LET prev == StoredPreviousNav(c)
                wc == frame[c].weighted_change
                sr == ret[c].stock_ratio
            IN  /\ ret[c].current_nav = prev
                /\ ret[c].estimated_nav = RAdd(prev, RMul(prev, RMul(wc, sr)))
                /\ RMul(ret[c].change_percent, prev) =
                      RMul(RInt(100),
                           RAdd(ret[c].estimated_nav, RMul(RInt(-1), prev)))
                /\ (FullyQuoted(c) /\ prev = RInt(10)) =>
                      /\ wc = R(8, 1000)
                      /\ sr = R(9, 10)
                      /\ ret[c].estimated_nav = R(10072, 1000)
                      /\ ret[c].change_percent = R(72, 100)

\* the worked example has been computed
C12_Witness ==
    \E c \in Callers :
        /\ FullyQuoted(c)
        /\ ret[c].current_nav = RInt(10)
        /\ ret[c].estimated_nav = R(10072, 1000)

\* C13: in a computed holdings_based result the stock ratio reported, and
\* used in the estimate, is 0.95 when the allocation fetch failed or returned
\* nothing, and the provider's stock share (as a fraction) when it answered.
C13_StockRatioDefault ==
    \A c \in Callers :
        (Computed(c) /\ ret[c].calculation_method = "holdings_based") =>
            LET prev == StoredPreviousNav(c)
                wc == frame[c].weighted_change
                used == IF log[c][5].answer = "ok"
                        THEN RDiv(VendorStockShare, RInt(100))
                        ELSE R(95, 100)
            IN  /\ log[c][5].step = "allocation"
                /\ ret[c].stock_ratio = used
                /\ ret[c].estimated_nav =
                      RMul(prev, RAdd(ROne, RMul(wc, used)))
                /\ ret[c].change_percent = RMul(RMul(wc, used), RInt(100))

\* the allocation fetch raised and the estimate moved the NAV by the default
\* ratio
C13_Witness ==
    \E c \in Callers :
        /\ Computed(c)
        /\ ret[c].calculation_method = "holdings_based"
        /\ log[c][5] = E("allocation", "raise")
        /\ ret[c].stock_ratio = R(95, 100)
        /\ ret[c].estimated_nav # ret[c].current_nav

\* a result without the two fields that describe the moment of the run
Timeless(r) ==
    IF r = None THEN None
    ELSE [r EXCEPT !.is_trading_hours = FALSE, !.last_update = 0]

\* C14: of two runs with the same inputs, one inside trading hours and one
\* after the close, the second makes the steps of the first, and once both are
\* over their results are equal in every field but is_trading_hours and
\* last_update; a vendor result for a fund without a stored NAV of today
\* carries the vendor's estimated NAV and growth in both.
C14_TradingHoursOnlyAnnotates ==
    /\ \A i \in 1..Len(log[2]) :
         (i <= Len(log[1]) /\ \A j \in 1..(i - 1) : log[2][j] = log[1][j])
            => log[2][i].step = log[1][i].step
    /\ (pc[1] = "done" /\ pc[2] = "done")
         => /\ log[2] = log[1]
            /\ Timeless(ret[2]) = Timeless(ret[1])
    /\ \A c \in Callers :
         (/\ pc[c] = "done"
          /\ ret[c] # None
          /\ ret[c].calculation_method = "tiantian_api"
          /\ Today \notin DOMAIN db[frame[c].fund_code].navs)
            => /\ ret[c].estimated_nav = frame[c].realtime_data.estimated_nav
               /\ ret[c].change_percent =
                     frame[c].realtime_data.estimated_growth

\* both runs returned the vendor's estimate of 10.1, one flagged inside
\* trading hours and one not
C14_Witness ==
    /\ pc[1] = "done" /\ pc[2] = "done"
    /\ ret[1] # None /\ ret[2] # None
    /\ ret[1].calculation_method = "tiantian_api"
    /\ ret[1].is_trading_hours /\ ~ret[2].is_trading_hours
    /\ ret[2].estimated_nav = R(101, 10)
    /\ ret[2].change_percent = RInt(1)

\* the operation e changes or removes the entry of key k
Affects(e, k) ==
    \/ e.step \in {"set", "delete"} /\ e.answer.key = k
    \/ e.step = "delete_pattern" /\ Contains(k, e.answer.pattern)
    \/ e.step = "clear"

\* the position of the last operation before position i that affects k, or 0
LastWrite(h, i, k) ==
    LET W == {j \in 1..(i - 1) : Affects(h[j], k)}
    IN  IF W = {} THEN 0 ELSE CHOOSE j \in W : \A x \in W : x <= j

\* C15: a get(k) whose last preceding operation on k is set(k, v, ttl) at t0
\* returns v when made at t <= t0 + ttl and absent when made later; the last
\* set decides both the value and the expiry.
C15_TtlDecidesGet ==
    \A i \in 1..Len(log[1]) :
        log[1][i].step = "get" =>
            LET g == log[1][i].answer
                j == LastWrite(log[1], i, g.key)
            IN  (j > 0 /\ log[1][j].step = "set") =>
                    LET s == log[1][j].answer
                    IN  g.result = IF g.t <= s.t + s.ttl THEN s.value
                                   ELSE None

\* a key was set twice and the get at the second set's expiry time, after the
\* first set's expiry, returned the second value
C15_Witness ==
    /\ Len(log[1]) = 3
    /\ log[1][1].step = "set" /\ log[1][2].step = "set"
    /\ log[1][3].step = "get"
    /\ log[1][1].answer.key = log[1][3].answer.key
    /\ log[1][2].answer.key = log[1][3].answer.key
    /\ log[1][1].answer.value # log[1][2].answer.value
    /\ log[1][3].answer.t = log[1][2].answer.t + log[1][2].answer.ttl
    /\ log[1][3].answer.t > log[1][1].answer.t + log[1][1].answer.ttl
    /\ log[1][3].answer.result = log[1][2].answer.value

\* the step appends the operation named op to the history
Did(op) ==
    /\ Len(log'[1]) = Len(log[1]) + 1
    /\ log'[1][Len(log'[1])].step = op

\* the operation the step appended
Done == log'[1][Len(log'[1])].answer

\* the store after is the store before without the keys in K
Removed(K) ==
    /\ DOMAIN cache' = (DOMAIN cache) \ K
    /\ \A k \in DOMAIN cache' : cache'[k] = cache[k]

\* C16: get(k) on an expired entry removes exactly that entry and returns
\* absent; on a live or missing key it leaves the store as it was; a value it
\* returns is the stored one and its expiry is not before the time of the get.
C16_LazyExpiry ==
    [][Did("get") =>
         LET k == Done.key
             expired == k \in DOMAIN cache /\ cache[k].expires_at < now
         IN  /\ expired => (Done.result = None /\ Removed({k}))
             /\ ~expired => cache' = cache
             /\ Done.result # None =>
                   /\ k \in DOMAIN cache
                   /\ now <= cache[k].expires_at
                   /\ Done.result = cache[k].value]_vars

\* both keys were set, and a get of one of them after its expiry returned
\* absent and left only the other in the store
C16_Witness ==
    /\ Len(log[1]) = 3
    /\ log[1][1].step = "set" /\ log[1][2].step = "set"
    /\ log[1][3].step = "get"
    /\ log[1][1].answer.key = log[1][3].answer.key
    /\ log[1][2].answer.key # log[1][3].answer.key
    /\ log[1][3].answer.result = None
    /\ DOMAIN cache = {log[1][2].answer.key}

\* C17: delete_pattern(p) removes exactly the keys that contain p, live or
\* expired, and changes no other entry; delete(k) removes k only and changes
\* nothing when k is missing; clear() empties the store.
C17_DeletionFrame ==
    [][/\ Did("delete_pattern") =>
            Removed({k \in DOMAIN cache : Contains(k, Done.pattern)})
       /\ Did("delete") =>
            /\ Removed({Done.key})
            /\ Done.key \notin DOMAIN cache => cache' = cache
       /\ Did("clear") => DOMAIN cache' = {}]_vars

\* both keys were set and a pattern from inside the keys removed both, one of
\* them expired by then
C17_Witness ==
    /\ Len(log[1]) = 3
    /\ log[1][1].step = "set" /\ log[1][2].step = "set"
    /\ log[1][1].answer.key # log[1][2].answer.key
    /\ log[1][3] = E("delete_pattern", [pattern |-> <<"n", "a", "v">>, t |-> 45])
    /\ log[1][1].answer.t + log[1][1].answer.ttl < 45
    /\ DOMAIN cache = {}

\* the place of a step in the documented order; the steps of the vendor tier
\* come after the step that decided the fallback and have no cache store
StepRank(step) ==
    CASE step = "cache_get" -> 1
      [] step = "fund_name" -> 2
      [] step = "previous_nav" -> 3
      [] step = "holdings" -> 4
      [] step = "allocation" -> 5
      [] step = "stock_prices" -> 6
      [] step = "cache_set" -> 7
      [] step = "realtime_nav" -> 8
      [] step = "actual_nav" -> 9
      [] step = "actual_nav_realtime" -> 10
      [] step = "today_published" -> 11

\* C18: the external steps of a call are made in the order cache lookup,
\* name resolution, previous-NAV read, holdings fetch, allocation fetch, quote
\* fetch, cache store, each at most once; the vendor fetch comes only after a
\* step that decided the fallback and no holdings-path step or cache store
\* follows it.
C18_StepsInDocumentedOrder ==
    \A c \in Callers :
        /\ \A i \in 1..Len(log[c]), j \in 1..Len(log[c]) :
              i < j => StepRank(log[c][i].step) < StepRank(log[c][j].step)
        /\ \A i \in 1..Len(log[c]) :
              log[c][i].step = "realtime_nav" =>
                  \/ HasMarker(frame[c].names[1])
                  \/ log[c][i - 1].step = "previous_nav"
                       /\ frame[c].previous_nav = None
                  \/ log[c][i - 1].step = "holdings"
                       /\ frame[c].holdings = <<>>

\* the text  fund:<code>:nav:realtime
FundKey(code) ==
    <<"f", "u", "n", "d", ":">> \o code
        \o <<":", "n", "a", "v", ":", "r", "e", "a", "l", "t", "i", "m", "e">>

\* the entry of a key, or None
EntryOf(store, k) == IF k \in DOMAIN store THEN store[k] ELSE None

\* the fund the step of caller c is about
CodeOfStep(c) ==
    IF pc[c] = "idle" THEN frame'[c].fund_code ELSE frame[c].fund_code

\* C19: a step of an estimate call for fund c touches no cache entry but that
\* of fund:<c>:nav:realtime and nothing another call in flight holds or
\* reads, so under any interleaving of calls for different funds a call goes
\* as it would alone; the result a call returns is one for its own fund.
C19_DistinctFundsDoNotInterfere ==
    /\ [][\A c \in Callers :
            pc'[c] # pc[c] =>
                /\ \A k \in ((DOMAIN cache) \cup (DOMAIN cache'))
                                \ {FundKey(CodeOfStep(c))} :
                      EntryOf(cache', k) = EntryOf(cache, k)
                /\ \A d \in Callers \ {c} :
                      /\ pc'[d] = pc[d] /\ frame'[d] = frame[d]
                      /\ ret'[d] = ret[d] /\ log'[d] = log[d]
                      /\ frame[d].fund_code # None =>
                            EntryOf(cache', FundKey(frame[d].fund_code)) =
                                EntryOf(cache, FundKey(frame[d].fund_code))]_vars
    /\ [](\A c \in Callers :
            (pc[c] = "done" /\ ret[c] # None)
                => ret[c].fund_code = frame[c].fund_code)

\* caller 1 has stored its result while caller 2, asking about the other
\* fund, is between its quote fetch and its own cache store
C19_Witness ==
    /\ Computed(1)
    /\ ret[1].calculation_method = "holdings_based"
    /\ FundKey(frame[1].fund_code) \in DOMAIN cache
    /\ pc[2] = "fund_name2"
    /\ frame[2].fund_code # frame[1].fund_code
    /\ Len(log[1]) = 8

\* the call of caller c made its cache store
Stored(c) == "cache_set" \in StepsOf(c)

\* C20: of two calls for one fund that both missed, each store puts the
\* storing call's whole result with its own expiry under the fund's key, and
\* once both are over the entry under that key is the whole result of a call
\* that stored, never parts of two; the entry is there as long as the result
\* of a call that stored has not expired.
C20_SameFundRaceIsBenign ==
    /\ [][\A c \in Callers :
            ("cache_set" \notin StepsOf(c) /\ Stored(c)') =>
                /\ ret'[c] # None
                /\ EntryOf(cache', FundKey(frame[c].fund_code)) =
                      [value |-> ret'[c],
                       expires_at |-> now + cache_realtime_nav_ttl]]_vars
    /\ [](\A c \in Callers, d \in Callers :
            (/\ c # d
             /\ Computed(c) /\ pc[d] = "done"
             /\ log[d][1] = E("cache_get", "miss")
             /\ frame[c].fund_code = frame[d].fund_code
             /\ FundKey(frame[c].fund_code) \in DOMAIN cache)
                => \E s \in {c, d} :
                      /\ Stored(s)
                      /\ cache[FundKey(frame[c].fund_code)] =
                            [value |-> ret[s],
                             expires_at |-> ret[s].last_update
                                              + cache_realtime_nav_ttl])
    /\ [](\A c \in Callers :
            (/\ pc[c] = "done" /\ Stored(c)
             /\ now <= ret[c].last_update + cache_realtime_nav_ttl)
                => FundKey(frame[c].fund_code) \in DOMAIN cache)

\* both calls missed, both ran the whole provider sequence and stored, with
\* different estimates, and the entry is the result of caller 1
C20_Witness ==
    /\ Computed(1) /\ Computed(2)
    /\ Len(log[1]) = 8 /\ Len(log[2]) = 8
    /\ frame[1].fund_code = frame[2].fund_code
    /\ ret[1].estimated_nav # ret[2].estimated_nav
    /\ FundKey(frame[1].fund_code) \in DOMAIN cache
    /\ cache[FundKey(frame[1].fund_code)].value = ret[1]

\* the condition of an alert on an estimate, as the alert evaluator states it
ConditionHolds(alert, nav_data) ==
    CASE alert.alert_type = "price_above" ->
             RLt(alert.threshold, nav_data.estimated_nav)
      [] alert.alert_type = "price_below" ->
             RLt(nav_data.estimated_nav, alert.threshold)
      [] alert.alert_type = "change_percent" ->
             \/ RLt(alert.threshold, nav_data.change_percent)
             \/ RLt(nav_data.change_percent,
                    RMul(RInt(-1), alert.threshold))

\* the value the alert compares with its threshold
Compared(alert, nav_data) ==
    IF alert.alert_type = "change_percent" THEN RAbs(nav_data.change_percent)
    ELSE nav_data.estimated_nav

\* C21: in a poll, an alert that got an estimate fires exactly when its
\* condition holds strictly (a value equal to the threshold does not fire);
\* without a storage or broadcast failure a firing is stamped and notified
\* once; alerts that are not active are never dealt with nor stamped.
C21_FiresIffConditionHolds ==
    /\ \A i \in 1..Len(log[1]) :
         LET e == log[1][i]
             alert == db[e.alert]
         IN  /\ alert.is_active
             /\ e.nav_data # None =>
                   /\ e.triggered <=> ConditionHolds(alert, e.nav_data)
                   /\ Compared(alert, e.nav_data) = alert.threshold
                         => ~e.triggered
                   /\ (pc[1] = "idle" /\ ~e.error) =>
                         /\ e.stamped <=> e.triggered
                         /\ e.broadcasts = (IF e.triggered THEN 1 ELSE 0)
             /\ e.nav_data = None => ~e.triggered
    /\ \A a \in AlertIds :
         ~db[a].is_active => db[a].last_triggered = None

\* a poll is over in which the price_above alert saw an estimate equal to its
\* threshold and did not fire, and in which inactive alert 2 was left out
C21_Witness ==
    /\ pc[1] = "idle"
    /\ Len(log[1]) = 1
    /\ log[1][1].alert = 1
    /\ db[1].alert_type = "price_above"
    /\ log[1][1].nav_data # None
    /\ log[1][1].nav_data.estimated_nav = db[1].threshold
    /\ ~log[1][1].triggered
    /\ ~db[2].is_active

\* C22: in every poll, whatever the alert's last_triggered was before, an
\* alert whose condition holds on its estimate fires; without a storage or
\* broadcast failure the firing is stamped and notified exactly once, and no
\* alert is dealt with twice in a poll.
C22_FiresOnEveryPoll ==
    /\ \A i \in 1..Len(log[1]) :
         LET e == log[1][i]
         IN  /\ e.broadcasts <= 1
             /\ (e.nav_data # None /\ ConditionHolds(db[e.alert], e.nav_data))
                   => /\ e.triggered
                      /\ (pc[1] = "idle" /\ ~e.error)
                            => (e.stamped /\ e.broadcasts = 1)
    /\ \A i \in 1..Len(log[1]), j \in 1..Len(log[1]) :
         i # j => log[1][i].alert # log[1][j].alert

\* the second poll is over; alert 1 had fired before, fired again on the same
\* kind of estimate and was notified once more
C22_Witness ==
    /\ ncalls = 2
    /\ pc[1] = "idle"
    /\ \E i \in 1..Len(log[1]) :
         /\ log[1][i].alert = 1
         /\ log[1][i].last_before # None
         /\ log[1][i].triggered
         /\ log[1][i].stamped
         /\ log[1][i].broadcasts = 1

\* the alert the poll is dealing with
CurrentAlert == frame[1].alerts[frame[1].i]

\* C23: a notification is broadcast only for an alert whose stamp of this poll
\* is committed already, and the broadcast, failed or not, leaves the stamps
\* as they are; last_triggered changes only in the commit of an alert whose
\* condition holds, to the time of the poll.
C23_StampBeforeNotification ==
    /\ [][/\ (pc[1] = "broadcast" /\ pc'[1] # "broadcast") =>
                /\ db[CurrentAlert].last_triggered = <<now>>
                /\ db' = db
           /\ \A a \in AlertIds :
                db'[a].last_triggered # db[a].last_triggered =>
                    /\ pc[1] = "evaluate" /\ pc'[1] = "broadcast"
                    /\ a = CurrentAlert
                    /\ ConditionHolds(db[a], frame[1].nav_data)
                    /\ db'[a].last_triggered = <<now>>]_vars
    /\ [](\A i \in 1..Len(log[1]) :
            log[1][i].broadcasts > 0 =>
                /\ log[1][i].stamped
                /\ db[log[1][i].alert].last_triggered # None)

\* a broadcast failed and the stamp of that alert is in the table
C23_Witness ==
    \E i \in 1..Len(log[1]) :
        /\ log[1][i].stamped
        /\ log[1][i].broadcasts = 1
        /\ log[1][i].error
        /\ log[1][i].last_before = None
        /\ db[log[1][i].alert].last_triggered = <<now>>

\* C30: when a poll that read its alerts is over, every active alert has
\* been dealt with, in order, whatever happened to the ones before it; an
\* alert without fund or without estimate did not fire and has the
\* last_triggered it had.
C30_SkipsAndErrorsAreLocal ==
    (pc[1] = "idle" /\ ncalls > 0 /\ Len(frame[1].alerts) > 0) =>
        /\ Len(log[1]) = Len(frame[1].alerts)
        /\ \A i \in 1..Len(log[1]) :
             LET e == log[1][i]
             IN  /\ e.alert = frame[1].alerts[i]
                 /\ (~e.found \/ e.nav_data = None) =>
                       /\ ~e.triggered /\ ~e.stamped /\ e.broadcasts = 0
                       /\ db[e.alert].last_triggered = e.last_before

\* the fund query of the first alert raised and the second alert fired
C30_Witness ==
    /\ pc[1] = "idle"
    /\ Len(log[1]) = 2
    /\ log[1][1].error /\ ~log[1][1].found
    /\ log[1][2].triggered /\ log[1][2].stamped
    /\ log[1][2].broadcasts = 1


----------------------------------------------------------------------------
\* The indicator pipeline

\* the frame once calculate_all has gone through it
Indicators == frame[1].df

\* C24: for a series of exactly one bar, MA5 is the close of the bar,
\* BOLL_MID, BOLL_UPPER and BOLL_LOWER are all the close of the bar (values,
\* not missing ones), and KDJ_K = KDJ_D = 50 when the bar's high is its low.
C24_SingleBar ==
    (pc[1] = "done" /\ Len(Indicators.close) = 1)
    => /\ Indicators.MA5[1] = Indicators.close[1]
       /\ Indicators.BOLL_MID[1] = Indicators.close[1]
       /\ Indicators.BOLL_UPPER[1] = Indicators.close[1]
       /\ Indicators.BOLL_LOWER[1] = Indicators.close[1]
       /\ Indicators.high[1] = Indicators.low[1]
          => /\ Indicators.KDJ_K[1] = RInt(50)
             /\ Indicators.KDJ_D[1] = RInt(50)

\* the RSI column of period p
RsiOf(p) ==
    CASE p = 6 -> Indicators.RSI6
      [] p = 12 -> Indicators.RSI12
      [] p = 24 -> Indicators.RSI24

\* C25: for each period p in {6, 12, 24} and each bar, when the rolling
\* average loss over p bars is 0 (as for strictly rising closes), RSI(p) at
\* that bar is 100.
C25_RsiSaturates ==
    pc[1] = "done"
    => \A p \in {6, 12, 24} : \A t \in 1..Len(Indicators.close) :
           AvgLoss(Indicators, p)[t] = RZero => RsiOf(p)[t] = RInt(100)


----------------------------------------------------------------------------
\* Invalidation after a write

\* the last request served
LastRequest == log[1][1]

\* key k is an entry of the fund or of the portfolio a request wrote: it is
\* fund:<code>:... or portfolio:<id>:...
EntryOfTarget(op, target, k) ==
    LET head == IF op = "update_fund"
                THEN <<"f", "u", "n", "d", ":">> \o target \o <<":">>
                ELSE <<"p", "o", "r", "t", "f", "o", "l", "i", "o", ":">>
                         \o str(target) \o <<":">>
    IN  Len(head) <= Len(k) /\ SubSeq(k, 1, Len(head)) = head

\* C26: the invalidation after a write removes only the entries of the fund
\* or the portfolio that was written: the entries of any other one stay,
\* such as those of portfolio 10 when portfolio 1 is updated, or of a fund
\* whose code extends the written code.
C26_InvalidationIsLocal ==
    (Len(log[1]) = 1 /\ LastRequest.op \in {"update_fund", "update_portfolio"})
    => \A k \in DOMAIN LastRequest.before :
           k \notin DOMAIN cache
           => EntryOfTarget(LastRequest.op, LastRequest.target, k)


----------------------------------------------------------------------------
\* Estimates after a write

\* the invalidations the writes of kind op have made
Invalidations(op) ==
    { log[2][i].answer : i \in { j \in 1..Len(log[2]) :
                                   /\ log[2][j].step = "invalidate"
                                   /\ log[2][j].answer.op = op } }

\* caller 1 has returned a result for the fund of the write w, from a call
\* that started after the invalidation of w
ResultAfter(w) ==
    /\ ncalls > w.calls
    /\ pc[1] = "done"
    /\ ret[1] # None
    /\ frame[1].fund_code = w.code

\* C27: after sync_nav_data has committed a new NAV of a fund and invalidated,
\* the next estimate of the fund is computed from the new NAV: a holdings
\* result returned by a call that started afterwards has the latest stored
\* NAV as its current_nav; it is not an entry cached before the sync.
C27_EstimateUsesSyncedNav ==
    \A w \in Invalidations("sync_nav_data") :
        (ResultAfter(w) /\ ret[1].calculation_method = "holdings_based")
        => ret[1].current_nav = StoredPreviousNav(1)

\* the result was computed under the name old of a fund renamed to new: it
\* carries the old name, or it is the holdings estimate of a fund whose new
\* name has the feeder-fund marker that the old name did not have
UnderOldName(result, old, new) ==
    \/ result.fund_name = old
    \/ /\ HasMarker(new)
       /\ ~HasMarker(old)
       /\ result.calculation_method = "holdings_based"

\* C28: after update_fund has committed a new name and invalidated, no
\* estimate call that starts afterwards returns a result computed under the
\* old name; an estimate in flight during the rename does not put such a
\* result back into the cache.
C28_NoOldNameAfterRename ==
    \A w \in Invalidations("update_fund") :
        (ResultAfter(w) /\ w.old_name # w.new_name)
        => ~UnderOldName(ret[1], w.old_name, w.new_name)

\* the step leaves every entry of the cache as it was: none is created and
\* none is modified; an entry that leaves the store had expired, so that
\* every lookup answered "absent" for it before the step already
CacheIntact ==
    /\ \A k \in DOMAIN cache' : k \in DOMAIN cache /\ cache'[k] = cache[k]
    /\ \A k \in DOMAIN cache : k \in DOMAIN cache' \/ now > cache[k].expires_at

\* the step is the cache store of caller c, which ends its call with the
\* stored value as the result
StoresResult(c) ==
    /\ pc[c] = "fund_name2"
    /\ pc'[c] = "done"
    /\ ret'[c] # None
    /\ RealtimeKey(frame[c].fund_code) \in DOMAIN cache'
    /\ cache'[RealtimeKey(frame[c].fund_code)].value = ret'[c]

\* caller c went through the provider sequence after a cache miss
Reattempted(c) ==
    /\ log[c][1] = E("cache_get", "miss")
    /\ \E i \in 2..Len(log[c]) : log[c][i].step \in {"realtime_nav", "holdings"}

\* C29: a get_estimated_nav call that returns NotAvailable leaves the cache
\* unchanged, no entry is created or modified: the only steps that create or
\* modify an entry end a call with the stored result, and a call that
\* returned NotAvailable made no store.  A later call for the same fund,
\* answered by providers that work, therefore misses the cache, goes through
\* the provider sequence again and returns a result.
C29_NotAvailableIsRetryable ==
    /\ [][CacheIntact \/ \E c \in Callers : StoresResult(c)]_vars
    /\ [](\A c \in Callers :
            NotAvailable(c)
            => \A i \in 1..Len(log[c]) : log[c][i].step # "cache_set")
    /\ [](pc[2] = "done" => (ret[2] # None /\ Reattempted(2)))

\* caller 1 was answered NotAvailable by a vendor that failed, and the call
\* made afterwards for the same fund went to the providers and has a result
C29_Witness ==
    /\ NotAvailable(1)
    /\ log[1][Len(log[1])].answer \in {"raise", "empty", "bare"}
    /\ pc[2] = "done"
    /\ ret[2] # None
    /\ Reattempted(2)
    /\ frame[2].fund_code = frame[1].fund_code

====
